---- MODULE Spec2Model ----
(***************************************************************************)
(* A model of the wired-up dependency-injection container:                 *)
(*   - sortTopologically and Graph      (src/src/topological-sort.ts)      *)
(*   - RequestScope                     (src/src/scoped-manager.ts)        *)
(*   - Container                        (src/unnamed/part_012, lines 1-333)*)
(*   - isConstructor / isClass          (src/unnamed/part_010)             *)
(*   - getDefaultContainerConfig        (container.specs.ts, lines 237-247)*)
(***************************************************************************)
EXTENDS Naturals, Sequences, FiniteSets

(***************************************************************************)
(* Bounds of the model.                                                    *)
(***************************************************************************)
\* longest registrations array handed to sortTopologically in SpecSort
MaxSortLen == 3

\* longest services array handed to build
MaxServices == 3

\* Spec: calls the application makes in one behaviour (build, getService,
\* resolve, startScope, endScope, destroy), inside or outside a scope
MaxOps == 3

\* SpecBuild: build calls in one behaviour
MaxBuilds == 2

\* SpecScope: calls the application makes in one behaviour (build,
\* startScope, and what it calls in and around the scopes)
MaxScopeOps == 4

\* SpecScope: scopes the application starts in one behaviour
MaxScopes == 2

\* SpecStore: calls of RequestScope the application makes in one behaviour
MaxStoreOps == 5

\* SpecStore: different values the application stores
MaxValues == 2

\* service names
Names == {"a", "b", "c"}

\* registrationType of a RegisteredService (part_010 line 3)
Types == {"singleton", "scoped", "transient"}

(***************************************************************************)
(* Sequence helpers.                                                       *)
(***************************************************************************)
Range(s) == {s[i] : i \in 1..Len(s)}

SeqsUpTo(S, n) == UNION {[1..k -> S] : k \in 0..n}

\* Array.prototype.indexOf: first index holding x, 0 when absent
IndexOf(s, x) ==
  IF \E i \in 1..Len(s) : s[i] = x
  THEN CHOOSE i \in 1..Len(s) : s[i] = x /\ \A j \in 1..(i - 1) : s[j] # x
  ELSE 0

\* insertion order of a JS Set built by adding the elements of s in order
RECURSIVE SetOrder(_)
SetOrder(s) ==
  IF s = <<>> THEN <<>>
  ELSE LET init == SetOrder(SubSeq(s, 1, Len(s) - 1))
           x    == s[Len(s)]
       IN IF x \in Range(init) THEN init ELSE Append(init, x)

(***************************************************************************)
(* RegisteredService (part_010 lines 1-7).  impl is represented by what    *)
(* the container reads of it: ctor = isConstructor(impl) (part_010 13-15). *)
(* teardown = TRUE when a teardown hook is declared, and hookName is then  *)
(* teardown.name, the name of the hook function.  members is what an       *)
(* instance made by impl holds under each of the names a hook can have:    *)
(* "none" for nothing, "hook" for the hook function of this registration   *)
(* (a class registered with a method of its prototype, part_006 line      *)
(* 164), "own" for another function.  obj tells apart two distinct objects *)
(* with equal contents: two records are the same JS object exactly when    *)
(* they are equal.                                                         *)
(***************************************************************************)
\* the names of the hook functions of the application
HookNames == {"close", "stop"}

\* an instance that holds nothing under any of these names
NoMembers == [h \in HookNames |-> "none"]

\* a registration made by singleton / transient / scoped (part_009 lines
\* 32-72) of a factory and a separate hook function
Reg(n, t, d, c, td, o) ==
  [name |-> n, registrationType |-> t, dependencies |-> d,
   ctor |-> c, teardown |-> td, hookName |-> "close",
   members |-> NoMembers, obj |-> o]

\* the registration service, with an impl whose instances hold under the
\* name of the hook the hook itself (kind "hook") or a function of their
\* own (kind "own")
WithMember(service, kind) ==
  [service EXCEPT !.members[service.hookName] = kind]

\* isClass(service.impl) (part_010 lines 9-11): impl has a prototype of its
\* own.  It holds of the same functions as isConstructor: classes, function
\* declarations and mocks, and not arrow or async functions.
isClass(service) == service.ctor

\* instance[service.teardown.name] (part_012 line 235): what the instance
\* inst, whichever impl made it, holds under the name of the hook of service
MemberOf(inst, service) == inst.members[service.hookName]

\* what a teardown hook of the application that fails rejects with
HookError == "teardown failed"

\* the registration objects numbered 3 are those of the application whose
\* teardown hook rejects
HookFails(service) == service.teardown /\ service.obj = 3

(***************************************************************************)
(* topological-sort.ts, lines 1-74                                         *)
(***************************************************************************)
\* registrations.find((reg) => reg.name === dependency): index of the first
\* registration with that name, 0 for undefined            (line 35)
FindByName(registrations, dependency) ==
  IF \E i \in 1..Len(registrations) : registrations[i].name = dependency
  THEN CHOOSE i \in 1..Len(registrations) :
         /\ registrations[i].name = dependency
         /\ \A j \in 1..(i - 1) : registrations[j].name # dependency
  ELSE 0

\* graph.nodes after the loop of lines 32-38: a Set, in insertion order
GraphNodes(registrations) == SetOrder(registrations)

\* graph.dependenciesOf(node): the Set of edge destinations of node, in
\* insertion order, each given as an index into registrations (0 = the
\* undefined destination added for a name that matches no registration)
DependenciesOf(registrations, node) ==
  SetOrder([k \in 1..Len(node.dependencies) |->
              FindByName(registrations, node.dependencies[k])])

RECURSIVE Visit(_, _, _, _), VisitAll(_, _, _, _, _)

\* Faulty variant of visit: sorted.push(node) moved before the loop over the
\* node's dependencies.
VisitPushFirst(registrations, idx, st, stack) ==
  IF st.err THEN st
  ELSE IF idx = 0 THEN st
  ELSE LET node == registrations[idx] IN
    IF node \in stack THEN [st EXCEPT !.err = TRUE]
    ELSE IF node \in st.visited THEN st
    ELSE LET after == VisitAll(registrations,
                               DependenciesOf(registrations, node), 1,
                               [st EXCEPT !.sorted = Append(@, node)],
                               stack \cup {node})
         IN IF after.err THEN after
            ELSE [after EXCEPT !.visited = @ \cup {node}]

\* Faulty variant of visit: no recursionStack; the node is marked visited on
\* entry.
VisitMarkFirst(registrations, idx, st, stack) ==
  IF st.err THEN st
  ELSE IF idx = 0 THEN st
  ELSE LET node == registrations[idx] IN
    IF node \in st.visited THEN st
    ELSE LET after == VisitAll(registrations,
                               DependenciesOf(registrations, node), 1,
                               [st EXCEPT !.visited = @ \cup {node}], stack)
         IN [after EXCEPT !.sorted = Append(@, node)]

\* Faulty variant of visit: a node that is not in graph.nodes is an error
\* instead of being skipped.
VisitUnknownFails(registrations, idx, st, stack) ==
  IF st.err THEN st
  ELSE IF idx = 0 THEN [st EXCEPT !.err = TRUE]
  ELSE LET node == registrations[idx] IN
    IF node \in stack THEN [st EXCEPT !.err = TRUE]
    ELSE IF node \in st.visited THEN st
    ELSE LET after == VisitAll(registrations,
                               DependenciesOf(registrations, node), 1, st,
                               stack \cup {node})
         IN IF after.err THEN after
            ELSE [sorted  |-> Append(after.sorted, node),
                  visited |-> after.visited \cup {node},
                  err     |-> FALSE]

\* visit(node), lines 44-67, on the traversal state
\*   st = [sorted, visited, err];  stack = recursionStack
Visit(registrations, idx, st, stack) ==
  IF st.err THEN st
  ELSE IF idx = 0 THEN st                       \* !graph.nodes.has(undefined)
  ELSE LET node == registrations[idx] IN
    IF node \in stack THEN [st EXCEPT !.err = TRUE]
    ELSE IF node \in st.visited THEN st
    ELSE LET after == VisitAll(registrations,
                               DependenciesOf(registrations, node), 1, st,
                               stack \cup {node})
         IN IF after.err THEN after
            ELSE [sorted  |-> Append(after.sorted, node),
                  visited |-> after.visited \cup {node},
                  err     |-> FALSE]

VisitAll(registrations, deps, k, st, stack) ==
  IF k > Len(deps) \/ st.err THEN st
  ELSE VisitAll(registrations, deps, k + 1,
                Visit(registrations, deps[k], st, stack), stack)

\* Faulty variant of the loop of lines 69-71: graph.nodes is gone through
\* from its last node to its first.
RECURSIVE VisitNodesBackwards(_, _, _, _)
VisitNodesBackwards(registrations, nodes, k, st) ==
  IF k > Len(nodes) \/ st.err THEN st
  ELSE VisitNodesBackwards(registrations, nodes, k + 1,
         Visit(registrations,
               IndexOf(registrations, nodes[Len(nodes) + 1 - k]), st, {}))

\* the loop of lines 69-71 over graph.nodes
RECURSIVE VisitNodes(_, _, _, _)
VisitNodes(registrations, nodes, k, st) ==
  IF k > Len(nodes) \/ st.err THEN st
  ELSE VisitNodes(registrations, nodes, k + 1,
                  Visit(registrations, IndexOf(registrations, nodes[k]), st, {}))

\* sortTopologically(registrations): [err |-> TRUE] when it throws
\* 'Graph has cyclic dependencies', else the sorted array
sortTopologically(registrations) ==
  VisitNodes(registrations, GraphNodes(registrations), 1,
             [sorted |-> <<>>, visited |-> {}, err |-> FALSE])

(***************************************************************************)
(* State.                                                                  *)
(***************************************************************************)
VARIABLES
  instance,        \* Container._instance exists            (part_012 line 40)
  config,          \* this._config                          (part_012 line 41)
  registrations,   \* this._registrations: a Map, as its values in
                   \* insertion order                       (part_012 line 44)
  singletons,      \* entries of the Map this._singletons, written with
                   \* .set(): a sequence of <<name, instance>>       (line 43)
  singletonProps,  \* own properties of the object this._singletons, written
                   \* with this._singletons[name] = ...: name -> instance,
                   \* 0 when undefined                      (lines 298-302)
  stores,          \* the stores handed to asyncLocalStorage.run, one per
                   \* RequestScope.run call: name -> instance, 0 when the
                   \* store has no such own property  (scoped-manager.ts 34)
  frames,          \* the invocations of async functions in flight or settled
  run,             \* the synchronous call stack (frame indexes), top last
  created,         \* every instance produced by a registration's factory:
                   \* instance i is created[i], made from the arguments
                   \* args in the async context sc during lifetime life
  tdCalls,         \* name -> invocations of that registration's teardown
  ops,             \* calls made by the application so far
  lives,           \* successful destroy calls so far: the container lifetime
  sortIn,          \* SpecSort: the array handed to sortTopologically
  sortOut          \* SpecSort: what it returned

vars == <<instance, config, registrations, singletons, singletonProps, stores,
          frames, run, created, tdCalls, ops, lives, sortIn, sortOut>>

\* the container, its scopes and the running calls as one value
Machine ==
  [instance |-> instance, config |-> config, registrations |-> registrations,
   singletons |-> singletons, singletonProps |-> singletonProps,
   stores |-> stores, frames |-> frames, run |-> run, created |-> created,
   tdCalls |-> tdCalls, ops |-> ops, lives |-> lives]

Becomes(m) ==
  /\ instance' = m.instance
  /\ config' = m.config
  /\ registrations' = m.registrations
  /\ singletons' = m.singletons
  /\ singletonProps' = m.singletonProps
  /\ stores' = m.stores
  /\ frames' = m.frames
  /\ run' = m.run
  /\ created' = m.created
  /\ tdCalls' = m.tdCalls
  /\ ops' = m.ops
  /\ lives' = m.lives

NoInstances == [n \in Names |-> 0]

(***************************************************************************)
(* Error messages of the source.                                           *)
(***************************************************************************)
CyclicDependencyError    == "Graph has cyclic dependencies"
DuplicateServiceNameError == "Duplicate service names"
AlreadyRegisteredError   == "Service already registered"
NotInitializedError      == "Container has not been initialized"
\* the message of the getter Container.instance (lines 66-68); a test for
\* the text of NotInitializedError, toThrow('Container has not been
\* initialized'), accepts both messages
InstanceNotInitializedError ==
  "Container has not been initialized. Please call the init() method first."
NotInitializedErrors == {NotInitializedError, InstanceNotInitializedError}
ServiceNotRegisteredError == "Service not registered"
UnregisteredDependencyError == "Not all parameters are registered services"
ScopeMissingError        == "outside of scope"
ScopedKeyConflictError   == "Attempt to overwrite scoped value"
ScopedKeyMissingError    == "scoped value that does not exist"
TypeError                == "TypeError: services[service.teardown.name] is not a function"
InstanceTypeError        == "TypeError: instance[service.teardown.name] is not a function"

(***************************************************************************)
(* getDefaultContainerConfig (container.specs.ts lines 242-247) and the    *)
(* constructor's merge { ...default, ...config } (part_012 lines 46-49)    *)
(***************************************************************************)
getDefaultContainerConfig == [lazyLoad |-> FALSE]

\* given is "none" (no config argument) or a config with a lazyLoad value
NewConfig(given) ==
  IF given = "none" THEN getDefaultContainerConfig
  ELSE [lazyLoad |-> (given = "lazy")]

(***************************************************************************)
(* Map helpers for this._registrations and this._singletons.               *)
(***************************************************************************)
\* Map.get on the registry: the registration stored under name, as a
\* one-element sequence, <<>> for undefined
RegistryGet(regs, name) == SelectSeq(regs, LAMBDA r : r.name = name)

RegistryHas(regs, name) == \E i \in 1..Len(regs) : regs[i].name = name

\* Map.set(service.name, service): replaces in place, else appends
RegistrySet(regs, service) ==
  IF RegistryHas(regs, service.name)
  THEN [i \in 1..Len(regs) |->
          IF regs[i].name = service.name THEN service ELSE regs[i]]
  ELSE Append(regs, service)

RECURSIVE RegistrySetAll(_, _)
RegistrySetAll(regs, services) ==
  IF services = <<>> THEN regs
  ELSE RegistrySetAll(RegistrySet(regs, Head(services)), Tail(services))

\* this._singletons.set(serviceName, instance)
SingletonsSet(entries, name, inst) ==
  IF \E i \in 1..Len(entries) : entries[i][1] = name
  THEN [i \in 1..Len(entries) |->
          IF entries[i][1] = name THEN <<name, inst>> ELSE entries[i]]
  ELSE Append(entries, <<name, inst>>)

(***************************************************************************)
(* RequestScope (scoped-manager.ts).  sc is what asyncLocalStorage         *)
(* .getStore() returns in the calling async context: the index of the      *)
(* store of the enclosing RequestScope.run, 0 for undefined.  Instances    *)
(* are objects (truthy), numbered from 1.                                  *)
(***************************************************************************)
\* Faulty variant of setScoped: the value lands in one Map shared by every
\* run instead of the store of the calling context.
setScopedShared(st, sc, key, value) ==
  IF sc = 0 THEN [err |-> ScopeMissingError, stores |-> st]
  ELSE IF st[sc][key] # 0 /\ st[sc][key] # value
    THEN [err |-> ScopedKeyConflictError, stores |-> st]
  ELSE [err |-> "",
        stores |-> [t \in 1..Len(st) |-> [st[t] EXCEPT ![key] = value]]]

\* Faulty variant of getScoped: the value is read with store.get(key), which
\* finds nothing, the values being own properties of the store.
getScopedMapGet(st, sc, key) ==
  IF sc = 0 THEN [err |-> ScopeMissingError, val |-> 0]
  ELSE IF st[sc][key] = 0 THEN [err |-> ScopedKeyMissingError, val |-> 0]
  ELSE [err |-> "", val |-> 0]

\* Faulty variant of getScoped: without a store in the calling context it
\* falls back to the store of the scope started last.
getScopedLatest(st, sc, key) ==
  IF sc = 0 /\ st = <<>> THEN [err |-> ScopeMissingError, val |-> 0]
  ELSE LET s == IF sc = 0 THEN Len(st) ELSE sc IN
    IF st[s][key] = 0 THEN [err |-> ScopedKeyMissingError, val |-> 0]
    ELSE [err |-> "", val |-> st[s][key]]

\* Faulty variant of setScoped: a key that holds another value is
\* overwritten.
setScopedOverwrites(st, sc, key, value) ==
  IF sc = 0 THEN [err |-> ScopeMissingError, stores |-> st]
  ELSE [err |-> "", stores |-> [st EXCEPT ![sc][key] = value]]

\* setScoped(key, value), lines 7-18
setScoped(st, sc, key, value) ==
  IF sc = 0 THEN [err |-> ScopeMissingError, stores |-> st]
  ELSE IF st[sc][key] # 0 /\ st[sc][key] # value
    THEN [err |-> ScopedKeyConflictError, stores |-> st]
  ELSE [err |-> "", stores |-> [st EXCEPT ![sc][key] = value]]

\* getScoped(key), lines 20-31
getScoped(st, sc, key) ==
  IF sc = 0 THEN [err |-> ScopeMissingError, val |-> 0]
  ELSE IF st[sc][key] = 0 THEN [err |-> ScopedKeyMissingError, val |-> 0]
  ELSE [err |-> "", val |-> st[sc][key]]

\* Faulty variant of deleteKey: the key is checked and left in the store.
deleteKeyKeeps(st, sc, key) ==
  IF sc = 0 THEN [err |-> ScopeMissingError, stores |-> st]
  ELSE IF st[sc][key] = 0 THEN [err |-> ScopedKeyMissingError, stores |-> st]
  ELSE [err |-> "", stores |-> st]

\* Faulty variant of deleteKey: every key of the store is removed.
deleteKeyClearsStore(st, sc, key) ==
  IF sc = 0 THEN [err |-> ScopeMissingError, stores |-> st]
  ELSE IF st[sc][key] = 0 THEN [err |-> ScopedKeyMissingError, stores |-> st]
  ELSE [err |-> "", stores |-> [st EXCEPT ![sc] = NoInstances]]

\* deleteKey(key), lines 37-48
deleteKey(st, sc, key) ==
  IF sc = 0 THEN [err |-> ScopeMissingError, stores |-> st]
  ELSE IF st[sc][key] = 0 THEN [err |-> ScopedKeyMissingError, stores |-> st]
  ELSE [err |-> "", stores |-> [st EXCEPT ![sc][key] = 0]]

\* run(fn), lines 33-35: asyncLocalStorage.run(new Map(), fn)
NewStore(st) == Append(st, NoInstances)

(***************************************************************************)
(* Async function invocations.  A frame is one invocation; it runs on the  *)
(* synchronous stack `run` until it awaits (st = "wait") or settles        *)
(* (st = "ok" / "err"), and control then returns to its caller.            *)
(*   k     which function                                                  *)
(*   sc    the async context's store (inherited by everything it calls)    *)
(*   nm    getService: serviceName; resolve: the registration whose impl   *)
(*         is func, "target" for a function of the application             *)
(*   ps    resolve: params                                                 *)
(*   ctor  resolve: hasConstructor                                         *)
(*   arg   build: services; loops: the filtered array being iterated       *)
(*   kids  the invocations it made, in order                               *)
(*   aw    what it awaits: "ext" a promise of the application's code,      *)
(*         "kid" its last invocation, "all" Promise.all over kids          *)
(*   perr  the first rejection among the promises under Promise.all        *)
(*   inv, fin, tds   resolve: func was invoked / has completed / teardown  *)
(*         hooks this call invoked                                         *)
(*   calls resolve: the argument lists func was invoked with               *)
(*   impl  resolve: the registration whose impl is func, as a one-element  *)
(*         sequence, <<>> for a function of the application                *)
(***************************************************************************)
NewFrame(k, par, sc, nm, ps, ctor, arg) ==
  [k |-> k, pc |-> "start", par |-> par, sc |-> sc, nm |-> nm, ps |-> ps,
   ctor |-> ctor, arg |-> arg, i |-> 1, kids |-> <<>>, st |-> "active",
   aw |-> "", val |-> 0, err |-> "", perr |-> "",
   inv |-> FALSE, fin |-> FALSE, tds |-> 0, calls |-> <<>>, impl |-> <<>>]

\* the instance made by the func of the resolve call fr: what it was made
\* of and where, the members impl gives it, and whether the hook it may
\* hold as a member rejects
NewInstance(fr, args, life) ==
  [name |-> fr.nm, args |-> args, sc |-> fr.sc, life |-> life,
   members |-> fr.impl[1].members,
   rejects |-> HookFails(fr.impl[1])]

Top(m) == m.run[Len(m.run)]

Pop(s) == SubSeq(s, 1, Len(s) - 1)

Last(s) == s[Len(s)]

Settled(fr) == fr.st \in {"ok", "err"}

\* f moves to pc and calls child, which starts running synchronously in
\* the async context with store sc
CallIn(m, f, pc, child, sc) ==
  LET c == Len(m.frames) + 1 IN
  [m EXCEPT !.frames = Append([@ EXCEPT ![f].pc = pc,
                                        ![f].kids = Append(@, c)],
                              [child EXCEPT !.par = f, !.sc = sc]),
            !.run = Append(@, c)]

\* a call inherits the caller's async context
Call(m, f, pc, child) == CallIn(m, f, pc, child, m.frames[f].sc)

\* f reaches an await
Suspend(m, f, pc, aw) ==
  [m EXCEPT !.frames[f].st = "wait", !.frames[f].pc = pc, !.frames[f].aw = aw,
            !.run = Pop(@)]

\* the promise of f settles; under Promise.all the first rejection wins
Settle(m, f, val, err) ==
  LET par == m.frames[f].par
      m1  == [m EXCEPT !.frames[f].st = IF err = "" THEN "ok" ELSE "err",
                       !.frames[f].val = val,
                       !.frames[f].err = err,
                       !.run = Pop(@)]
  IN IF err # "" /\ par # 0 /\ m.frames[par].k = "resolve"
        /\ m.frames[par].perr = ""
     THEN [m1 EXCEPT !.frames[par].perr = err]
     ELSE m1

\* Faulty variant of the wait: the promise awaited for the services of a
\* resolve call only settles when every getService has returned an
\* instance; the rejection of one of them is never delivered.
ReadyWhenAllFulfilled(m, f) ==
  LET fr == m.frames[f] IN
  /\ fr.st = "wait"
  /\ CASE fr.aw = "ext" -> TRUE
       [] fr.aw = "kid" -> Settled(m.frames[Last(fr.kids)])
       [] fr.aw = "all" ->
            \A j \in 1..Len(fr.kids) : m.frames[fr.kids[j]].st = "ok"
       [] OTHER -> FALSE

\* a suspended frame whose awaited promise has settled
Ready(m, f) ==
  LET fr == m.frames[f] IN
  /\ fr.st = "wait"
  /\ CASE fr.aw = "ext" -> TRUE
       [] fr.aw = "kid" -> Settled(m.frames[Last(fr.kids)])
       [] fr.aw = "all" -> \/ fr.perr # ""
                           \/ \A j \in 1..Len(fr.kids) : m.frames[fr.kids[j]].st = "ok"
       [] OTHER -> FALSE

\* continue f after its await: back on the synchronous stack
Continue(m, f) ==
  [m EXCEPT !.frames[f].st = "active", !.frames[f].aw = "", !.run = Append(@, f)]

(***************************************************************************)
(* Container.build (part_012 lines 112-143)                                *)
(***************************************************************************)
\* sortedServices.map((service) => service.name), line 121
ServiceNames(sorted) == [i \in 1..Len(sorted) |-> sorted[i].name]

\* Faulty variant of line 122: a name is compared with the name before it
\* only.
DuplicateServiceNamesAdjacent(serviceNames) ==
  {i \in 2..Len(serviceNames) : serviceNames[i] = serviceNames[i - 1]}

\* line 122: the indexes kept by
\*   serviceNames.filter((n, index) => serviceNames.indexOf(n) !== index)
DuplicateServiceNames(serviceNames) ==
  {i \in 1..Len(serviceNames) : IndexOf(serviceNames, serviceNames[i]) # i}

\* line 129: the indexes kept by
\*   serviceNames.filter((n) => registeredServiceNames.includes(n))
DuplicateRegistrations(serviceNames, regs) ==
  {i \in 1..Len(serviceNames) : RegistryHas(regs, serviceNames[i])}

\* Faulty variant of the checks of build: a dependency name that no
\* registration of the union bears is an error, found before anything is
\* committed.
BuildErrorChecksDependencies(regs, services) ==
  LET r == sortTopologically(regs \o services) IN
  IF r.err THEN CyclicDependencyError
  ELSE IF DuplicateServiceNames(ServiceNames(r.sorted)) # {}
    THEN DuplicateServiceNameError
  ELSE IF DuplicateRegistrations(ServiceNames(r.sorted), regs) # {}
    THEN AlreadyRegisteredError
  ELSE IF \E i \in 1..Len(r.sorted) :
            \E k \in 1..Len(r.sorted[i].dependencies) :
              ~RegistryHas(r.sorted, r.sorted[i].dependencies[k])
    THEN UnregisteredDependencyError
  ELSE ""

\* lines 113-132: the error build throws on services, "" when it goes on.
\* this._initialized is never set, so line 113 never throws.
BuildError(regs, services) ==
  LET r == sortTopologically(regs \o services) IN
  IF r.err THEN CyclicDependencyError
  ELSE IF DuplicateServiceNames(ServiceNames(r.sorted)) # {}
    THEN DuplicateServiceNameError
  ELSE IF DuplicateRegistrations(ServiceNames(r.sorted), regs) # {}
    THEN AlreadyRegisteredError
  ELSE ""

\* Faulty variant of line 138: the flag read the wrong way round.
EagerLoadInverted(cfg) == cfg.lazyLoad = TRUE

\* line 138: whether build goes on to setupSingletons
EagerLoad(cfg) == cfg.lazyLoad = FALSE

\* resolve(service.impl, service.dependencies) for a registration
ResolveOf(service) ==
  [NewFrame("resolve", 0, 0, service.name, service.dependencies,
            service.ctor, <<>>) EXCEPT !.impl = <<service>>]

\* Faulty variant of build: the loop of lines 134-136 runs before the checks
\* of lines 118-132.
BuildStepCommitFirst(m, f) ==
  LET fr == m.frames[f] IN
  CASE fr.pc = "start" ->
         LET e == BuildError(m.registrations, fr.arg)
             m1 == [m EXCEPT !.registrations = RegistrySetAll(@, fr.arg)]
         IN IF e # "" THEN Settle(m1, f, 0, e)
            ELSE IF EagerLoad(m.config)
              THEN Call(m1, f, "await",
                        NewFrame("setupSingletons", 0, 0, "", <<>>, FALSE, <<>>))
            ELSE Settle(m1, f, 0, "")
    [] fr.pc = "await" -> Suspend(m, f, "done", "kid")
    [] fr.pc = "done" -> Settle(m, f, 0, m.frames[Last(fr.kids)].err)

BuildStep(m, f) ==
  LET fr == m.frames[f] IN
  CASE fr.pc = "start" ->
         LET e == BuildError(m.registrations, fr.arg) IN
         IF e # "" THEN Settle(m, f, 0, e)
         ELSE LET sorted == sortTopologically(m.registrations \o fr.arg).sorted
                  m1 == [m EXCEPT !.registrations = RegistrySetAll(@, sorted)]
              IN IF EagerLoad(m.config)
                 THEN Call(m1, f, "await",
                           NewFrame("setupSingletons", 0, 0, "", <<>>, FALSE, <<>>))
                 ELSE Settle(m1, f, 0, "")
    [] fr.pc = "await" -> Suspend(m, f, "done", "kid")
    [] fr.pc = "done" -> Settle(m, f, 0, m.frames[Last(fr.kids)].err)

(***************************************************************************)
(* Container.setupSingletons (part_012 lines 323-332)                      *)
(***************************************************************************)
OfType(regs, t) == SelectSeq(regs, LAMBDA r : r.registrationType = t)

SetupSingletonsStep(m, f) ==
  LET fr == m.frames[f] IN
  CASE fr.pc = "start" ->
         [m EXCEPT !.frames[f].arg = OfType(m.registrations, "singleton"),
                   !.frames[f].pc = "loop"]
    [] fr.pc = "loop" ->
         IF fr.i > Len(fr.arg) THEN Settle(m, f, 0, "")
         ELSE Call(m, f, "await", ResolveOf(fr.arg[fr.i]))
    [] fr.pc = "await" -> Suspend(m, f, "set", "kid")
    [] fr.pc = "set" ->
         LET kid == m.frames[Last(fr.kids)] IN
         IF kid.st = "err" THEN Settle(m, f, 0, kid.err)
         ELSE [m EXCEPT !.singletons = SingletonsSet(@, fr.arg[fr.i].name, kid.val),
                        !.frames[f].i = @ + 1,
                        !.frames[f].pc = "loop"]

(***************************************************************************)
(* Container.getService (part_012 lines 290-321)                           *)
(***************************************************************************)
\* line 298: this._singletons[serviceName], a property read, not a Map.get
CachedSingleton(m, name) == m.singletonProps[name]

\* Faulty variant of line 299: the cache is emptied before the instance is
\* stored.
CacheSingletonEvicts(m, name, inst) ==
  [m EXCEPT !.singletonProps = [n \in Names |-> IF n = name THEN inst ELSE 0]]

\* Faulty variant of line 299: an instance that is already cached is kept.
CacheSingletonFirst(m, name, inst) ==
  IF m.singletonProps[name] # 0 THEN m
  ELSE [m EXCEPT !.singletonProps[name] = inst]

\* line 299: this._singletons[serviceName] = ...
CacheSingleton(m, name, inst) == [m EXCEPT !.singletonProps[name] = inst]

\* Faulty variant of getService: the transient branch keeps the instance
\* as the singleton branch does and returns it to later calls.
GetServiceStepCachesTransient(m, f) ==
  LET fr  == m.frames[f]
      got == RegistryGet(m.registrations, fr.nm)
  IN
  CASE fr.pc = "start" ->
         IF got = <<>> THEN Settle(m, f, 0, ServiceNotRegisteredError)
         ELSE LET service == got[1] IN
           CASE service.registrationType = "singleton" ->
                  IF CachedSingleton(m, fr.nm) = 0
                  THEN Call(m, f, "singletonAwait", ResolveOf(service))
                  ELSE Settle(m, f, CachedSingleton(m, fr.nm), "")
             [] service.registrationType = "scoped" ->
                  LET g == getScoped(m.stores, fr.sc, fr.nm) IN
                  IF g.err # "" THEN Settle(m, f, 0, g.err)
                  ELSE IF g.val = 0
                    THEN Call(m, f, "scopedAwait", ResolveOf(service))
                  ELSE Settle(m, f, g.val, "")
             [] OTHER ->
                  IF CachedSingleton(m, fr.nm) = 0
                  THEN Call(m, f, "transientAwait", ResolveOf(service))
                  ELSE Settle(m, f, CachedSingleton(m, fr.nm), "")
    [] fr.pc \in {"singletonAwait", "scopedAwait", "transientAwait"} ->
         Suspend(m, f, CASE fr.pc = "singletonAwait" -> "singletonSet"
                         [] fr.pc = "scopedAwait" -> "scopedSet"
                         [] OTHER -> "transientReturn", "kid")
    [] fr.pc = "singletonSet" ->
         LET kid == m.frames[Last(fr.kids)] IN
         IF kid.st = "err" THEN Settle(m, f, 0, kid.err)
         ELSE LET m1 == CacheSingleton(m, fr.nm, kid.val)
              IN Settle(m1, f, CachedSingleton(m1, fr.nm), "")
    [] fr.pc = "scopedSet" ->
         LET kid == m.frames[Last(fr.kids)]
             w   == setScoped(m.stores, fr.sc, fr.nm, kid.val)
         IN IF kid.st = "err" THEN Settle(m, f, 0, kid.err)
            ELSE IF w.err # "" THEN Settle(m, f, 0, w.err)
            ELSE Settle([m EXCEPT !.stores = w.stores], f, kid.val, "")
    [] fr.pc = "transientReturn" ->
         LET kid == m.frames[Last(fr.kids)] IN
         IF kid.st = "err" THEN Settle(m, f, 0, kid.err)
         ELSE Settle(CacheSingleton(m, fr.nm, kid.val), f, kid.val, "")

GetServiceStep(m, f) ==
  LET fr  == m.frames[f]
      got == RegistryGet(m.registrations, fr.nm)
  IN
  CASE fr.pc = "start" ->
         IF got = <<>> THEN Settle(m, f, 0, ServiceNotRegisteredError)
         ELSE LET service == got[1] IN
           CASE service.registrationType = "singleton" ->
                  IF CachedSingleton(m, fr.nm) = 0
                  THEN Call(m, f, "singletonAwait", ResolveOf(service))
                  ELSE Settle(m, f, CachedSingleton(m, fr.nm), "")
             [] service.registrationType = "scoped" ->
                  LET g == getScoped(m.stores, fr.sc, fr.nm) IN
                  IF g.err # "" THEN Settle(m, f, 0, g.err)
                  ELSE IF g.val = 0
                    THEN Call(m, f, "scopedAwait", ResolveOf(service))
                  ELSE Settle(m, f, g.val, "")
             [] OTHER -> Call(m, f, "transientAwait", ResolveOf(service))
    [] fr.pc \in {"singletonAwait", "scopedAwait", "transientAwait"} ->
         Suspend(m, f, CASE fr.pc = "singletonAwait" -> "singletonSet"
                         [] fr.pc = "scopedAwait" -> "scopedSet"
                         [] OTHER -> "transientReturn", "kid")
    [] fr.pc = "singletonSet" ->
         LET kid == m.frames[Last(fr.kids)] IN
         IF kid.st = "err" THEN Settle(m, f, 0, kid.err)
         ELSE LET m1 == CacheSingleton(m, fr.nm, kid.val)
              IN Settle(m1, f, CachedSingleton(m1, fr.nm), "")
    [] fr.pc = "scopedSet" ->
         LET kid == m.frames[Last(fr.kids)]
             w   == setScoped(m.stores, fr.sc, fr.nm, kid.val)
         IN IF kid.st = "err" THEN Settle(m, f, 0, kid.err)
            ELSE IF w.err # "" THEN Settle(m, f, 0, w.err)
            ELSE Settle([m EXCEPT !.stores = w.stores], f, kid.val, "")
    [] fr.pc = "transientReturn" ->
         LET kid == m.frames[Last(fr.kids)] IN Settle(m, f, kid.val, kid.err)

(***************************************************************************)
(* Container.resolve (part_012 lines 250-282)                              *)
(***************************************************************************)
\* func is invoked with services: hasConstructor ? new func(...) : func(...)
\* The impl of a registration produces a new instance; what a function of
\* the application returns is not an instance of any registration (0).
\* A function of the application is named "target", or "throws" when it
\* fails: its constructor throws, or the promise it returns rejects.
TargetNames == {"target", "throws"}

TargetError == "target failed"

Thrown(fr) == IF fr.nm = "throws" THEN TargetError ELSE ""

\* Faulty variant of the invocation: the spread of services in the wrong
\* order, func(...services.reverse()).
InvokeFuncReversed(m, f, services) ==
  LET fr  == m.frames[f]
      rev == [j \in 1..Len(services) |-> services[Len(services) + 1 - j]]
      m1  == [m EXCEPT !.frames[f].inv = TRUE,
                       !.frames[f].calls = Append(@, rev)]
  IN IF fr.nm \in TargetNames THEN m1
     ELSE [m1 EXCEPT !.frames[f].val = Len(m.created) + 1,
                     !.created = Append(@, NewInstance(fr, rev, m.lives))]

InvokeFunc(m, f, services) ==
  LET fr == m.frames[f]
      m1 == [m EXCEPT !.frames[f].inv = TRUE,
                      !.frames[f].calls = Append(@, services)]
  IN IF fr.nm \in TargetNames THEN m1
     ELSE [m1 EXCEPT !.frames[f].val = Len(m.created) + 1,
                     !.created = Append(@, NewInstance(fr, services, m.lives))]

\* Faulty variant of the check of lines 258-264: only the first param is
\* looked up in the registry.
HasUnregisteredFirst(regs, params) ==
  Len(params) > 0 /\ ~RegistryHas(regs, params[1])

\* lines 258-264: some param is not a registered service
HasUnregistered(regs, params) ==
  \E k \in 1..Len(params) : ~RegistryHas(regs, params[k])

\* Faulty variant of lines 271-273: every registration of params is kept,
\* whatever its registrationType.
TransientServicesUnfiltered(regs, params) ==
  LET found == [k \in 1..Len(params) |-> RegistryGet(regs, params[k])]
      F[k \in 0..Len(params)] ==
        IF k = 0 THEN <<>>
        ELSE IF found[k] # <<>> THEN Append(F[k - 1], found[k][1]) ELSE F[k - 1]
  IN F[Len(params)]

\* lines 271-273: the registrations of params that are transient
TransientServices(regs, params) ==
  LET found == [k \in 1..Len(params) |-> RegistryGet(regs, params[k])]
      keep  == {k \in 1..Len(params) :
                  found[k] # <<>> /\ found[k][1].registrationType = "transient"}
      F[k \in 0..Len(params)] ==
        IF k = 0 THEN <<>>
        ELSE IF k \in keep THEN Append(F[k - 1], found[k][1]) ELSE F[k - 1]
  IN F[Len(params)]

\* lines 276-279: one pass of the teardown loop on service = arg[i]
TeardownStep(m, f) ==
  LET fr == m.frames[f] IN
  \* the end of finally: the result, or the failure, of the try block
  IF fr.i > Len(fr.arg) THEN Settle(m, f, fr.val, fr.err)
  ELSE IF ~fr.arg[fr.i].teardown THEN [m EXCEPT !.frames[f].i = @ + 1]
  ELSE IF fr.ctor THEN Settle(m, f, 0, TypeError)
  ELSE Suspend([m EXCEPT !.tdCalls[fr.arg[fr.i].name] = @ + 1,
                         !.frames[f].tds = @ + 1,
                         !.frames[f].i = @ + 1],
               f, IF HookFails(fr.arg[fr.i]) THEN "hookFailed" ELSE "teardown",
               "ext")

\* Faulty variant of resolve: line 266 as a loop that awaits each
\* getService(serviceName) before it calls the next one.
ResolveStepSequential(m, f) ==
  LET fr == m.frames[f] IN
  CASE fr.pc = "start" ->
         IF Len(fr.ps) = 0
         THEN IF fr.ctor
              THEN LET m1 == InvokeFunc(m, f, <<>>)
                   IN Settle([m1 EXCEPT !.frames[f].fin = TRUE], f,
                             m1.frames[f].val, Thrown(fr))
              ELSE Suspend(InvokeFunc(m, f, <<>>), f, "return", "ext")
         ELSE IF HasUnregistered(m.registrations, fr.ps)
           THEN Settle(m, f, 0, UnregisteredDependencyError)
         ELSE [m EXCEPT !.frames[f].pc = "getServices"]
    [] fr.pc = "return" ->
         Settle([m EXCEPT !.frames[f].fin = TRUE], f, fr.val, Thrown(fr))
    [] fr.pc = "getServices" ->
         \* line 266: params.map((serviceName) => this.getService(serviceName))
         IF fr.i <= Len(fr.ps)
         THEN Call([m EXCEPT !.frames[f].i = @ + 1], f, "awaitService",
                   NewFrame("getService", 0, 0, fr.ps[fr.i], <<>>, FALSE, <<>>))
         ELSE Suspend(m, f, "invoke", "all")
    [] fr.pc = "awaitService" -> Suspend(m, f, "getServices", "kid")
    [] fr.pc = "invoke" ->
         IF fr.perr # "" THEN Settle(m, f, 0, fr.perr)
         ELSE LET services == [j \in 1..Len(fr.kids) |-> m.frames[fr.kids[j]].val]
                  m1 == InvokeFunc(m, f, services)
              IN IF fr.ctor
                 THEN [m1 EXCEPT !.frames[f].fin = TRUE,
                                 !.frames[f].err = Thrown(fr),
                                 !.frames[f].pc = "finally"]
                 ELSE Suspend(m1, f, "invoked", "ext")
    [] fr.pc = "invoked" ->
         [m EXCEPT !.frames[f].fin = TRUE,
                   !.frames[f].err = Thrown(fr),
                   !.frames[f].pc = "finally"]
    [] fr.pc = "finally" ->
         [m EXCEPT !.frames[f].arg = TransientServices(m.registrations, fr.ps),
                   !.frames[f].i = 1,
                   !.frames[f].pc = "teardown"]
    [] fr.pc = "teardown" -> TeardownStep(m, f)
    [] fr.pc = "hookFailed" -> Settle(m, f, 0, HookError)

\* Faulty variant of resolve: line 266 inside the try block, so that the
\* finally block also runs when a getService has failed.
ResolveStepTryAroundLookups(m, f) ==
  LET fr == m.frames[f] IN
  CASE fr.pc = "start" ->
         IF Len(fr.ps) = 0
         THEN IF fr.ctor
              THEN LET m1 == InvokeFunc(m, f, <<>>)
                   IN Settle([m1 EXCEPT !.frames[f].fin = TRUE], f,
                             m1.frames[f].val, Thrown(fr))
              ELSE Suspend(InvokeFunc(m, f, <<>>), f, "return", "ext")
         ELSE IF HasUnregistered(m.registrations, fr.ps)
           THEN Settle(m, f, 0, UnregisteredDependencyError)
         ELSE [m EXCEPT !.frames[f].pc = "getServices"]
    [] fr.pc = "return" ->
         Settle([m EXCEPT !.frames[f].fin = TRUE], f, fr.val, Thrown(fr))
    [] fr.pc = "getServices" ->
         \* line 266: params.map((serviceName) => this.getService(serviceName))
         IF fr.i <= Len(fr.ps)
         THEN Call([m EXCEPT !.frames[f].i = @ + 1], f, "getServices",
                   NewFrame("getService", 0, 0, fr.ps[fr.i], <<>>, FALSE, <<>>))
         ELSE Suspend(m, f, "invoke", "all")
    [] fr.pc = "invoke" ->
         IF fr.perr # ""
         THEN [m EXCEPT !.frames[f].err = fr.perr, !.frames[f].pc = "finally"]
         ELSE LET services == [j \in 1..Len(fr.kids) |-> m.frames[fr.kids[j]].val]
                  m1 == InvokeFunc(m, f, services)
              IN IF fr.ctor
                 THEN [m1 EXCEPT !.frames[f].fin = TRUE,
                                 !.frames[f].err = Thrown(fr),
                                 !.frames[f].pc = "finally"]
                 ELSE Suspend(m1, f, "invoked", "ext")
    [] fr.pc = "invoked" ->
         [m EXCEPT !.frames[f].fin = TRUE,
                   !.frames[f].err = Thrown(fr),
                   !.frames[f].pc = "finally"]
    [] fr.pc = "finally" ->
         [m EXCEPT !.frames[f].arg = TransientServices(m.registrations, fr.ps),
                   !.frames[f].i = 1,
                   !.frames[f].pc = "teardown"]
    [] fr.pc = "teardown" -> TeardownStep(m, f)
    [] fr.pc = "hookFailed" -> Settle(m, f, 0, HookError)

ResolveStep(m, f) ==
  LET fr == m.frames[f] IN
  CASE fr.pc = "start" ->
         IF Len(fr.ps) = 0
         THEN IF fr.ctor
              THEN LET m1 == InvokeFunc(m, f, <<>>)
                   IN Settle([m1 EXCEPT !.frames[f].fin = TRUE], f,
                             m1.frames[f].val, Thrown(fr))
              ELSE Suspend(InvokeFunc(m, f, <<>>), f, "return", "ext")
         ELSE IF HasUnregistered(m.registrations, fr.ps)
           THEN Settle(m, f, 0, UnregisteredDependencyError)
         ELSE [m EXCEPT !.frames[f].pc = "getServices"]
    [] fr.pc = "return" ->
         Settle([m EXCEPT !.frames[f].fin = TRUE], f, fr.val, Thrown(fr))
    [] fr.pc = "getServices" ->
         \* line 266: params.map((serviceName) => this.getService(serviceName))
         IF fr.i <= Len(fr.ps)
         THEN Call([m EXCEPT !.frames[f].i = @ + 1], f, "getServices",
                   NewFrame("getService", 0, 0, fr.ps[fr.i], <<>>, FALSE, <<>>))
         ELSE Suspend(m, f, "invoke", "all")
    [] fr.pc = "invoke" ->
         IF fr.perr # "" THEN Settle(m, f, 0, fr.perr)
         ELSE LET services == [j \in 1..Len(fr.kids) |-> m.frames[fr.kids[j]].val]
                  m1 == InvokeFunc(m, f, services)
              IN IF fr.ctor
                 THEN [m1 EXCEPT !.frames[f].fin = TRUE,
                                 !.frames[f].err = Thrown(fr),
                                 !.frames[f].pc = "finally"]
                 ELSE Suspend(m1, f, "invoked", "ext")
    [] fr.pc = "invoked" ->
         [m EXCEPT !.frames[f].fin = TRUE,
                   !.frames[f].err = Thrown(fr),
                   !.frames[f].pc = "finally"]
    [] fr.pc = "finally" ->
         [m EXCEPT !.frames[f].arg = TransientServices(m.registrations, fr.ps),
                   !.frames[f].i = 1,
                   !.frames[f].pc = "teardown"]
    [] fr.pc = "teardown" -> TeardownStep(m, f)
    [] fr.pc = "hookFailed" -> Settle(m, f, 0, HookError)

(***************************************************************************)
(* Container.startScope (part_012 lines 203-216)                           *)
(***************************************************************************)
UndefinedInstanceError == "TypeError: Cannot read properties of undefined"

\* startScope itself: RequestScope.run(async () => {...}) starts the body
\* with a new store; run returns nothing, so startScope returns undefined
\* as soon as the body has reached its first await.
StartScopeStep(m, f) ==
  LET fr == m.frames[f] IN
  CASE fr.pc = "start" ->
         CallIn([m EXCEPT !.stores = NewStore(@)], f, "return",
                NewFrame("scopeBody", 0, 0, "", <<>>, FALSE, <<>>),
                Len(m.stores) + 1)
    [] fr.pc = "return" -> Settle(m, f, 0, "")

\* Faulty variant of the scope body: a scoped registration whose resolution
\* failed is skipped and the loop goes on to the callback.
ScopeBodyStepSkipsFailed(m, f) ==
  LET fr == m.frames[f] IN
  CASE fr.pc = "start" ->
         IF ~m.instance THEN Settle(m, f, 0, UndefinedInstanceError)
         ELSE [m EXCEPT !.frames[f].arg = OfType(m.registrations, "scoped"),
                        !.frames[f].pc = "loop"]
    [] fr.pc = "loop" ->
         IF fr.i > Len(fr.arg)
         THEN Call(m, f, "awaitNext",
                   NewFrame("callback", 0, 0, "", <<>>, FALSE, <<>>))
         ELSE Call(m, f, "await", ResolveOf(fr.arg[fr.i]))
    [] fr.pc = "await" -> Suspend(m, f, "set", "kid")
    [] fr.pc = "set" ->
         LET kid == m.frames[Last(fr.kids)]
             w   == setScoped(m.stores, fr.sc, fr.arg[fr.i].name, kid.val)
         IN IF kid.st = "err" \/ w.err # ""
            THEN [m EXCEPT !.frames[f].i = @ + 1, !.frames[f].pc = "loop"]
            ELSE [m EXCEPT !.stores = w.stores,
                           !.frames[f].i = @ + 1,
                           !.frames[f].pc = "loop"]
    [] fr.pc = "awaitNext" -> Suspend(m, f, "end", "kid")
    [] fr.pc = "end" -> Settle(m, f, 0, m.frames[Last(fr.kids)].err)

\* Variant of the scope body that closes the scope when the callback has
\* completed (every scoped teardown hook invoked, the store cleared), which
\* the code does not do.
ScopeBodyStepClosesScope(m, f) ==
  LET fr == m.frames[f] IN
  CASE fr.pc = "start" ->
         IF ~m.instance THEN Settle(m, f, 0, UndefinedInstanceError)
         ELSE [m EXCEPT !.frames[f].arg = OfType(m.registrations, "scoped"),
                        !.frames[f].pc = "loop"]
    [] fr.pc = "loop" ->
         IF fr.i > Len(fr.arg)
         THEN Call(m, f, "awaitNext",
                   NewFrame("callback", 0, 0, "", <<>>, FALSE, <<>>))
         ELSE Call(m, f, "await", ResolveOf(fr.arg[fr.i]))
    [] fr.pc = "await" -> Suspend(m, f, "set", "kid")
    [] fr.pc = "set" ->
         LET kid == m.frames[Last(fr.kids)]
             w   == setScoped(m.stores, fr.sc, fr.arg[fr.i].name, kid.val)
         IN IF kid.st = "err" THEN Settle(m, f, 0, kid.err)
            ELSE IF w.err # "" THEN Settle(m, f, 0, w.err)
            ELSE [m EXCEPT !.stores = w.stores,
                           !.frames[f].i = @ + 1,
                           !.frames[f].pc = "loop"]
    [] fr.pc = "awaitNext" -> Suspend(m, f, "end", "kid")
    [] fr.pc = "end" ->
         Settle([m EXCEPT
                   !.tdCalls = [n \in Names |->
                     IF \E j \in 1..Len(fr.arg) :
                          /\ fr.arg[j].name = n
                          /\ fr.arg[j].teardown
                          /\ m.stores[fr.sc][n] # 0
                     THEN @[n] + 1 ELSE @[n]],
                   !.stores[fr.sc] = NoInstances],
                f, 0, m.frames[Last(fr.kids)].err)

\* the async callback handed to RequestScope.run, lines 204-215
ScopeBodyStep(m, f) ==
  LET fr == m.frames[f] IN
  CASE fr.pc = "start" ->
         IF ~m.instance THEN Settle(m, f, 0, UndefinedInstanceError)
         ELSE [m EXCEPT !.frames[f].arg = OfType(m.registrations, "scoped"),
                        !.frames[f].pc = "loop"]
    [] fr.pc = "loop" ->
         IF fr.i > Len(fr.arg)
         THEN Call(m, f, "awaitNext",
                   NewFrame("callback", 0, 0, "", <<>>, FALSE, <<>>))
         ELSE Call(m, f, "await", ResolveOf(fr.arg[fr.i]))
    [] fr.pc = "await" -> Suspend(m, f, "set", "kid")
    [] fr.pc = "set" ->
         LET kid == m.frames[Last(fr.kids)]
             w   == setScoped(m.stores, fr.sc, fr.arg[fr.i].name, kid.val)
         IN IF kid.st = "err" THEN Settle(m, f, 0, kid.err)
            ELSE IF w.err # "" THEN Settle(m, f, 0, w.err)
            ELSE [m EXCEPT !.stores = w.stores,
                           !.frames[f].i = @ + 1,
                           !.frames[f].pc = "loop"]
    [] fr.pc = "awaitNext" -> Suspend(m, f, "end", "kid")
    [] fr.pc = "end" -> Settle(m, f, 0, m.frames[Last(fr.kids)].err)

(***************************************************************************)
(* Container.endScope (part_012 lines 223-241)                             *)
(***************************************************************************)
\* Lines 234-237 for the scoped registration service and the instance
\* stored under its name, made by whatever registration had the name when
\* the scope was opened.  For an impl without a prototype the hook is
\* called.  For an impl with a prototype the hook itself is not: what the
\* instance holds under the name of the hook function is,
\* instance[service.teardown.name]() (line 235).  That is a hook when the
\* instance holds one there; it is a function of the instance that is no
\* hook when the names only coincide; and when the instance holds nothing
\* there the call throws a TypeError, no hook runs and the key stays.
TeardownScoped(m, f, service, inst) ==
  LET hooked == [m EXCEPT !.tdCalls[service.name] = @ + 1,
                          !.frames[f].tds = @ + 1]
  IN IF ~isClass(service)
     THEN Suspend(hooked, f,
                  IF HookFails(service) THEN "hookFailed" ELSE "delete", "ext")
     ELSE CASE MemberOf(inst, service) = "none" ->
                 Settle(m, f, 0, InstanceTypeError)
            [] MemberOf(inst, service) = "hook" ->
                 Suspend(hooked, f,
                         IF inst.rejects THEN "hookFailed" ELSE "delete", "ext")
            [] OTHER -> Suspend(m, f, "delete", "ext")

\* Faulty variant of endScope: the check of lines 224-226 for a missing
\* container is left out (with no container there is no registration to
\* iterate, so the call completes).
EndScopeStepUnchecked(m, f) ==
  LET fr == m.frames[f] IN
  CASE fr.pc = "start" ->
         [m EXCEPT !.frames[f].arg = OfType(m.registrations, "scoped"),
                   !.frames[f].pc = "loop"]
    [] fr.pc = "loop" ->
         IF fr.i > Len(fr.arg) THEN Settle(m, f, 0, "")
         ELSE LET g == getScoped(m.stores, fr.sc, fr.arg[fr.i].name) IN
           IF g.err # "" THEN Settle(m, f, 0, g.err)
           ELSE IF g.val # 0 /\ fr.arg[fr.i].teardown
             THEN TeardownScoped(m, f, fr.arg[fr.i], m.created[g.val])
           ELSE [m EXCEPT !.frames[f].pc = "delete"]
    [] fr.pc = "hookFailed" -> Settle(m, f, 0, HookError)
    [] fr.pc = "delete" ->
         LET d == deleteKey(m.stores, fr.sc, fr.arg[fr.i].name) IN
         IF d.err # "" THEN Settle(m, f, 0, d.err)
         ELSE [m EXCEPT !.stores = d.stores,
                        !.frames[f].i = @ + 1,
                        !.frames[f].pc = "loop"]

\* Faulty variant of endScope: the rejection of a teardown hook is caught
\* and the loop goes on with deleteKey.
EndScopeStepSuppresses(m, f) ==
  LET fr == m.frames[f] IN
  CASE fr.pc = "start" ->
         IF ~m.instance THEN Settle(m, f, 0, NotInitializedError)
         ELSE [m EXCEPT !.frames[f].arg = OfType(m.registrations, "scoped"),
                        !.frames[f].pc = "loop"]
    [] fr.pc = "loop" ->
         IF fr.i > Len(fr.arg) THEN Settle(m, f, 0, "")
         ELSE LET g == getScoped(m.stores, fr.sc, fr.arg[fr.i].name) IN
           IF g.err # "" THEN Settle(m, f, 0, g.err)
           ELSE IF g.val # 0 /\ fr.arg[fr.i].teardown
             THEN TeardownScoped(m, f, fr.arg[fr.i], m.created[g.val])
           ELSE [m EXCEPT !.frames[f].pc = "delete"]
    [] fr.pc = "hookFailed" -> [m EXCEPT !.frames[f].pc = "delete"]
    [] fr.pc = "delete" ->
         LET d == deleteKey(m.stores, fr.sc, fr.arg[fr.i].name) IN
         IF d.err # "" THEN Settle(m, f, 0, d.err)
         ELSE [m EXCEPT !.stores = d.stores,
                        !.frames[f].i = @ + 1,
                        !.frames[f].pc = "loop"]

EndScopeStep(m, f) ==
  LET fr == m.frames[f] IN
  CASE fr.pc = "start" ->
         IF ~m.instance THEN Settle(m, f, 0, NotInitializedError)
         ELSE [m EXCEPT !.frames[f].arg = OfType(m.registrations, "scoped"),
                        !.frames[f].pc = "loop"]
    [] fr.pc = "loop" ->
         IF fr.i > Len(fr.arg) THEN Settle(m, f, 0, "")
         ELSE LET g == getScoped(m.stores, fr.sc, fr.arg[fr.i].name) IN
           IF g.err # "" THEN Settle(m, f, 0, g.err)
           ELSE IF g.val # 0 /\ fr.arg[fr.i].teardown
             THEN TeardownScoped(m, f, fr.arg[fr.i], m.created[g.val])
           ELSE [m EXCEPT !.frames[f].pc = "delete"]
    [] fr.pc = "hookFailed" -> Settle(m, f, 0, HookError)
    [] fr.pc = "delete" ->
         LET d == deleteKey(m.stores, fr.sc, fr.arg[fr.i].name) IN
         IF d.err # "" THEN Settle(m, f, 0, d.err)
         ELSE [m EXCEPT !.stores = d.stores,
                        !.frames[f].i = @ + 1,
                        !.frames[f].pc = "loop"]

(***************************************************************************)
(* Container.destroy (part_012 lines 174-194)                              *)
(***************************************************************************)
\* service.registrationType read on a cached instance (line 180): the loop
\* iterates the entries of this._singletons, whose values are the
\* instances, not the registrations
InstanceRegistrationType(inst) == "undefined"

\* lines 179-181
DestroyTargets(entries) ==
  SelectSeq(entries, LAMBDA e : InstanceRegistrationType(e[2]) = "singleton")

\* Variant of destroy that also forgets the container (Container._instance
\* = undefined), which the code does not do.
DestroyStepForgetsInstance(m, f) ==
  IF ~m.instance THEN Settle(m, f, 0, NotInitializedError)
  ELSE LET gone == {e[1] : e \in Range(DestroyTargets(m.singletons))} IN
    Settle([m EXCEPT !.singletons = SelectSeq(@, LAMBDA e : e[1] \notin gone),
                     !.registrations = <<>>,
                     !.instance = FALSE,
                     !.lives = @ + 1],
           f, 0, "")

DestroyStep(m, f) ==
  IF ~m.instance THEN Settle(m, f, 0, NotInitializedError)
  ELSE LET gone == {e[1] : e \in Range(DestroyTargets(m.singletons))} IN
    Settle([m EXCEPT !.singletons = SelectSeq(@, LAMBDA e : e[1] \notin gone),
                     !.registrations = <<>>,
                     !.lives = @ + 1],
           f, 0, "")

(***************************************************************************)
(* The callback handed to startScope: code of the application running in   *)
(* the scope.  What it calls is chosen by CallbackCall; here, its awaits.  *)
(***************************************************************************)
CallbackStep(m, f) ==
  LET fr == m.frames[f] IN
  CASE fr.pc = "await" -> Suspend(m, f, "resume", "kid")
    [] fr.pc = "resume" ->
         LET kid == m.frames[Last(fr.kids)] IN
         IF kid.st = "err" THEN Settle(m, f, 0, kid.err)
         ELSE [m EXCEPT !.frames[f].pc = "start"]

(***************************************************************************)
(* One synchronous step of the running invocation.                         *)
(***************************************************************************)
Exec(m) ==
  LET f == Top(m)
      k == m.frames[f].k
  IN CASE k = "build" -> BuildStep(m, f)
       [] k = "setupSingletons" -> SetupSingletonsStep(m, f)
       [] k = "getService" -> GetServiceStep(m, f)
       [] k = "resolve" -> ResolveStep(m, f)
       [] k = "startScope" -> StartScopeStep(m, f)
       [] k = "scopeBody" -> ScopeBodyStep(m, f)
       [] k = "endScope" -> EndScopeStep(m, f)
       [] k = "destroy" -> DestroyStep(m, f)
       [] k = "callback" -> CallbackStep(m, f)

\* the callback is at a point where the application's code decides
AtCallback(m) ==
  /\ m.run # <<>>
  /\ m.frames[Top(m)].k = "callback"
  /\ m.frames[Top(m)].pc = "start"

\* JavaScript runs to completion: the synchronous stack runs until every
\* invocation on it has awaited or settled, or until the application's
\* callback has to decide what it does next
RECURSIVE RunSync(_)
RunSync(m) ==
  IF m.run = <<>> \/ AtCallback(m) THEN m
  ELSE CHOOSE r \in {RunSync(n) : n \in {Exec(m)}} : TRUE

(***************************************************************************)
(* The application.  Its registration objects are Services: the shapes of  *)
(* the tests (a leaf, a dependent of it, a dependent of both) in every     *)
(* lifecycle, a class and a plain function, plus a registration that       *)
(* closes a cycle and a second object registered under a used name.        *)
(***************************************************************************)
DependenciesFor(n) ==
  CASE n = "a" -> <<>>
    [] n = "b" -> <<"a">>
    [] OTHER   -> <<"a", "b">>

\* SpecBuild: the registration objects of the application
Services ==
  {Reg("a", "singleton", <<>>, FALSE, TRUE, 1),
   Reg("a", "singleton", <<>>, FALSE, TRUE, 2),
   Reg("a", "transient", <<"b">>, FALSE, FALSE, 1),
   Reg("b", "singleton", <<"a">>, FALSE, TRUE, 1),
   Reg("b", "transient", <<"a">>, FALSE, TRUE, 1),
   Reg("b", "scoped", <<"c">>, FALSE, FALSE, 1),
   Reg("c", "singleton", <<"a", "b">>, TRUE, TRUE, 1),
   Reg("c", "transient", <<"c">>, FALSE, FALSE, 1)}

\* SpecBuild: the arrays handed to build
BuildInputs == SeqsUpTo(Services, MaxServices)

\* SpecSort: the registrations sortTopologically is tried on; only name,
\* dependencies and identity matter to it
SortServices ==
  {Reg(n, "transient", d, FALSE, FALSE, o) :
     n \in Names,
     d \in {<<>>, <<"a">>, <<"b">>, <<"c">>, <<"a", "b">>, <<"b", "a">>,
            <<"b", "c">>, <<"c", "a">>, <<"d">>},
     o \in {1}}
  \cup {Reg(n, "transient", <<>>, FALSE, FALSE, 2) : n \in Names}
  \cup {Reg("a", "transient", <<"a">>, FALSE, FALSE, 2)}

SortInputs == SeqsUpTo(SortServices, MaxSortLen)

\* Spec: the arrays handed to build.  Each is a leaf a, b depending on a
\* and (when present) c depending on a and b, c being a class or a function:
\*   the tests' singletons used by several services, the scenario of the
\*   spec (singleton, scoped, transient), the tests' chain of transients, a
\*   singleton used by two transients, a chain of scoped services, a
\*   scoped service between two transients, a container that leaves
\*   the name c unregistered, and singletons of which the second has a
\*   teardown hook that rejects
App(ta, tb, tc, cc) ==
  <<Reg("a", ta, DependenciesFor("a"), FALSE, TRUE, 1),
    Reg("b", tb, DependenciesFor("b"), FALSE, TRUE, 1),
    Reg("c", tc, DependenciesFor("c"), cc, TRUE, 1)>>

Apps ==
  {App("singleton", "singleton", "singleton", TRUE),
   App("singleton", "scoped", "transient", FALSE),
   App("transient", "transient", "transient", FALSE),
   App("singleton", "transient", "transient", TRUE),
   App("scoped", "scoped", "transient", FALSE),
   App("transient", "scoped", "transient", FALSE),
   SubSeq(App("singleton", "transient", "transient", FALSE), 1, 2),
   [App("singleton", "singleton", "singleton", TRUE) EXCEPT ![2].obj = 3]}

\* the functions the application hands to resolve: params and hasConstructor
\* (the last one names d, a service that no container registers)
Targets ==
  {[ps |-> p, ctor |-> c] :
     p \in {<<>>, <<"b">>, <<"c">>, <<"a", "b">>}, c \in BOOLEAN}
  \cup {[ps |-> <<"a", "d">>, ctor |-> FALSE]}

\* the functions handed to resolve that fail: an async function and a class
FailingTargets ==
  {[ps |-> <<"c">>, ctor |-> FALSE], [ps |-> <<"a", "b">>, ctor |-> TRUE]}

\* what the application may call on a built container
Calls ==
  {[op |-> "getService", nm |-> n, ps |-> <<>>, ctor |-> FALSE] : n \in Names}
  \cup {[op |-> "resolve", nm |-> "target", ps |-> t.ps, ctor |-> t.ctor] :
          t \in Targets}
  \cup {[op |-> "resolve", nm |-> "throws", ps |-> t.ps, ctor |-> t.ctor] :
          t \in FailingTargets}
  \cup {[op |-> o, nm |-> "", ps |-> <<>>, ctor |-> FALSE] :
          o \in {"startScope", "endScope", "destroy"}}

FrameOf(call) == NewFrame(call.op, 0, 0, call.nm, call.ps, call.ctor, <<>>)

\* The application awaits each call it makes from the top level before it
\* makes the next one; what startScope started may still be running, since
\* the promise of startScope does not wait for it.
Awaited(fs) == \A j \in 1..Len(fs) : fs[j].par = 0 => Settled(fs[j])

\* frames of finished work are dropped once nothing is in flight
Live(fs) == IF \A j \in 1..Len(fs) : Settled(fs[j]) THEN <<>> ELSE fs

\* a call made from the top level (no enclosing scope)
Start(m, fr) ==
  LET fs == Live(m.frames) IN
  [m EXCEPT !.frames = Append(fs, fr),
            !.run = IF Settled(fr) THEN <<>> ELSE <<Len(fs) + 1>>,
            !.ops = @ + 1]

\* Container.register(config) (part_012 lines 78-84): creates the container
\* with its config when there is none, and returns a builder.  The builder
\* collects registrations in an array of its own and touches the container
\* only in its build(); its singleton / transient / scoped return nothing
\* (part_009 lines 13-26), so the chain register().singleton(..).build()
\* of the tests ends in a TypeError after this step and goes no further.
AppRegister(given) ==
  /\ run = <<>>
  /\ instance' = TRUE
  /\ config' = IF instance THEN config ELSE NewConfig(given)
  /\ UNCHANGED <<registrations, singletons, singletonProps, stores, frames,
                 run, created, tdCalls, ops, lives, sortIn, sortOut>>

\* Container.init(services, config) (part_012 lines 96-102), which creates
\* the container when there is none and calls build; with a container,
\* also build(services) called on it or on a builder (part_009 lines 28-30)
AppBuild(services, given) ==
  /\ run = <<>>
  /\ Awaited(frames)
  /\ ops < MaxOps
  /\ instance => given = "none"
  /\ Becomes(RunSync(Start([Machine EXCEPT
                      !.instance = TRUE,
                      !.config = IF instance THEN @ ELSE NewConfig(given)],
                   NewFrame("build", 0, 0, "", <<>>, FALSE, services))))
  /\ UNCHANGED <<sortIn, sortOut>>

\* Container.instance.getService / .resolve (the getter of lines 65-71
\* throws when there is no container), Container.startScope / endScope /
\* destroy
TopLevelCall(call) ==
  /\ run = <<>>
  /\ Awaited(frames)
  /\ Becomes(RunSync(Start(Machine,
       IF call.op \in {"getService", "resolve"} /\ ~instance
       THEN [FrameOf(call) EXCEPT !.st = "err",
                                  !.err = InstanceNotInitializedError]
       ELSE FrameOf(call))))
  /\ UNCHANGED <<sortIn, sortOut>>

AppCall(call) == ops < MaxOps /\ TopLevelCall(call)

\* the callback of a scope calls into the container and awaits the result
InScopeCall(call) ==
  /\ AtCallback(Machine)
  /\ call.op # "startScope"
  /\ Becomes(RunSync(Call([Machine EXCEPT !.ops = @ + 1], Top(Machine),
                          "await", FrameOf(call))))
  /\ UNCHANGED <<sortIn, sortOut>>

CallbackCall(call) == ops < MaxOps /\ InScopeCall(call)

\* The callback of a scope starts work that it does not await (a timer, a
\* promise left floating) and that calls into the container later.  The
\* work is created in the async context of the callback, so that
\* asyncLocalStorage.getStore() gives it the store of the scope whenever it
\* runs; it is an invocation waiting to be started by the event loop.
CallbackDefer(call) ==
  /\ AtCallback(Machine)
  /\ ops < MaxScopeOps
  /\ call.op # "startScope"
  /\ Becomes([Machine EXCEPT
       !.ops = @ + 1,
       !.frames = Append(@, [FrameOf(call) EXCEPT
                               !.par = Top(Machine),
                               !.sc = Machine.frames[Top(Machine)].sc,
                               !.st = "wait",
                               !.aw = "ext"])])
  /\ UNCHANGED <<sortIn, sortOut>>

\* the callback of a scope returns
CallbackReturn ==
  /\ AtCallback(Machine)
  /\ Becomes(RunSync(Settle(Machine, Top(Machine), 0, "")))
  /\ UNCHANGED <<sortIn, sortOut>>

\* the event loop continues an invocation whose awaited promise has settled
Resume(f) ==
  /\ run = <<>>
  /\ Ready(Machine, f)
  /\ Becomes(RunSync(Continue(Machine, f)))
  /\ UNCHANGED <<sortIn, sortOut>>

Init ==
  /\ instance = FALSE
  /\ config = getDefaultContainerConfig
  /\ registrations = <<>>
  /\ singletons = <<>>
  /\ singletonProps = NoInstances
  /\ stores = <<>>
  /\ frames = <<>>
  /\ run = <<>>
  /\ created = <<>>
  /\ tdCalls = [n \in Names |-> 0]
  /\ ops = 0
  /\ lives = 0
  /\ sortIn = <<>>
  /\ sortOut = [sorted |-> <<>>, visited |-> {}, err |-> FALSE]

Next ==
  \/ \E given \in {"none", "lazy", "eager"} : AppRegister(given)
  \/ \E services \in Apps, given \in {"none", "lazy", "eager"} :
       AppBuild(services, given)
  \/ \E call \in Calls : AppCall(call)
  \/ \E call \in Calls : CallbackCall(call)
  \/ CallbackReturn
  \/ \E f \in 1..Len(frames) : Resume(f)

Spec == Init /\ [][Next]_vars

\* Spec with an event loop that does not starve and application code that
\* completes: an invocation whose awaited promise has settled is eventually
\* continued (the promises of the factories and teardown hooks settle and
\* the microtask queue is drained), and the callback of a scope, which
\* runs synchronously, eventually returns
SpecLive ==
  /\ Init /\ [][Next]_vars
  /\ WF_vars(\E f \in 1..Len(frames) : Resume(f))
  /\ WF_vars(CallbackReturn)

(***************************************************************************)
(* SpecBuild: register and build alone, on every array of the              *)
(* application's registration objects.                                     *)
(***************************************************************************)
NextBuild ==
  \/ \E given \in {"none", "lazy", "eager"} : AppRegister(given)
  \/ \E services \in BuildInputs, given \in {"none", "lazy", "eager"} :
       ops < MaxBuilds /\ AppBuild(services, given)
  \/ \E f \in 1..Len(frames) : Resume(f)

SpecBuild == Init /\ [][NextBuild]_vars

(***************************************************************************)
(* SpecScope: one container with scoped registrations and the scopes of    *)
(* the application: calls from inside a callback, from work the callback   *)
(* left behind, and from outside any scope.                                *)
(***************************************************************************)
\* the arrays handed to build: the scenario of the spec, a chain of scoped
\* services, scoped services of which the last is a function with a
\* prototype and a separate hook, the same with a class whose hook is its
\* method, a class with a method that only has the name of its separate
\* hook, and the chain with a teardown hook of b that rejects
ScopeApps ==
  {App("singleton", "scoped", "transient", FALSE),
   App("scoped", "scoped", "transient", FALSE),
   App("scoped", "scoped", "scoped", TRUE),
   [App("scoped", "scoped", "scoped", TRUE) EXCEPT
      ![3] = WithMember(@, "hook")],
   <<WithMember(Reg("a", "scoped", <<>>, TRUE, TRUE, 1), "own")>>,
   [App("scoped", "scoped", "scoped", TRUE) EXCEPT ![2].obj = 3]}

ScopeCalls ==
  {[op |-> "getService", nm |-> n, ps |-> <<>>, ctor |-> FALSE] : n \in Names}
  \cup {[op |-> o, nm |-> "", ps |-> <<>>, ctor |-> FALSE] :
          o \in {"startScope", "endScope"}}

NextScope ==
  \/ \E given \in {"none", "lazy"} : AppRegister(given)
  \/ \E services \in ScopeApps, given \in {"none", "lazy"} :
       registrations = <<>> /\ AppBuild(services, given)
  \/ \E call \in ScopeCalls :
       /\ ops < MaxScopeOps
       /\ call.op = "startScope" => Len(stores) < MaxScopes
       /\ TopLevelCall(call)
  \/ \E call \in ScopeCalls : ops < MaxScopeOps /\ InScopeCall(call)
  \/ \E call \in ScopeCalls : CallbackDefer(call)
  \/ CallbackReturn
  \/ \E f \in 1..Len(frames) : Resume(f)

SpecScope == Init /\ [][NextScope]_vars

(***************************************************************************)
(* SpecStore: RequestScope alone.  The application opens stores with       *)
(* RequestScope.run and calls setScoped, getScoped and deleteKey from code  *)
(* running in one of them (sc > 0) or in none (sc = 0).  frames holds the   *)
(* last call: its key in nm, the value written in arg, the value read in    *)
(* val, what it threw in err.                                               *)
(***************************************************************************)
StoreCall(op, sc, key, value, err, val) ==
  [NewFrame(op, 0, sc, key, <<>>, FALSE, value) EXCEPT
     !.st = IF err = "" THEN "ok" ELSE "err", !.err = err, !.val = val]

StoreRun ==
  /\ ops < MaxStoreOps
  /\ Len(stores) < MaxScopes
  /\ stores' = NewStore(stores)
  /\ frames' = <<StoreCall("run", 0, "", <<>>, "", 0)>>
  /\ ops' = ops + 1
  /\ UNCHANGED <<instance, config, registrations, singletons, singletonProps,
                 run, created, tdCalls, lives, sortIn, sortOut>>

StoreSetScoped(sc, key, value) ==
  /\ ops < MaxStoreOps
  /\ LET r == setScoped(stores, sc, key, value) IN
       /\ stores' = r.stores
       /\ frames' = <<StoreCall("setScoped", sc, key, <<value>>, r.err, 0)>>
  /\ ops' = ops + 1
  /\ UNCHANGED <<instance, config, registrations, singletons, singletonProps,
                 run, created, tdCalls, lives, sortIn, sortOut>>

StoreGetScoped(sc, key) ==
  /\ ops < MaxStoreOps
  /\ LET r == getScoped(stores, sc, key) IN
       frames' = <<StoreCall("getScoped", sc, key, <<>>, r.err, r.val)>>
  /\ ops' = ops + 1
  /\ UNCHANGED <<instance, config, registrations, singletons, singletonProps,
                 stores, run, created, tdCalls, lives, sortIn, sortOut>>

StoreDeleteKey(sc, key) ==
  /\ ops < MaxStoreOps
  /\ LET r == deleteKey(stores, sc, key) IN
       /\ stores' = r.stores
       /\ frames' = <<StoreCall("deleteKey", sc, key, <<>>, r.err, 0)>>
  /\ ops' = ops + 1
  /\ UNCHANGED <<instance, config, registrations, singletons, singletonProps,
                 run, created, tdCalls, lives, sortIn, sortOut>>

NextStore ==
  \/ StoreRun
  \/ \E sc \in 0..Len(stores), key \in Names, value \in 1..MaxValues :
       StoreSetScoped(sc, key, value)
  \/ \E sc \in 0..Len(stores), key \in Names : StoreGetScoped(sc, key)
  \/ \E sc \in 0..Len(stores), key \in Names : StoreDeleteKey(sc, key)

SpecStore == Init /\ [][NextStore]_vars

(***************************************************************************)
(* SpecSort: sortTopologically alone, as a function of its argument.       *)
(***************************************************************************)
InitSort ==
  /\ Init!1 /\ Init!2 /\ Init!3 /\ Init!4 /\ Init!5 /\ Init!6 /\ Init!7
  /\ Init!8 /\ Init!9 /\ Init!10 /\ Init!11 /\ Init!12
  /\ sortIn \in SortInputs
  /\ sortOut = [sorted |-> <<>>, visited |-> {}, err |-> FALSE]

SortCall ==
  /\ ops = 0
  /\ ops' = 1
  /\ sortOut' = sortTopologically(sortIn)
  /\ UNCHANGED <<instance, config, registrations, singletons, singletonProps,
                 stores, frames, run, created, tdCalls, lives, sortIn>>

NextSort == SortCall

SpecSort == InitSort /\ [][NextSort]_vars

(***************************************************************************)
(* Properties of sortTopologically, checked under SpecSort.                *)
(***************************************************************************)
UniqueNames(regs) ==
  \A i, j \in 1..Len(regs) : regs[i].name = regs[j].name => i = j

RegisteredNames(regs) == {regs[i].name : i \in 1..Len(regs)}

\* n depends on d: some registration named n lists the registered name d
NameEdges(regs) ==
  {e \in RegisteredNames(regs) \X RegisteredNames(regs) :
     \E i \in 1..Len(regs) :
       regs[i].name = e[1] /\ e[2] \in Range(regs[i].dependencies)}

\* R closed under k rounds of composition with itself
RECURSIVE Reach(_, _)
Reach(R, k) ==
  IF k = 0 THEN R
  ELSE Reach(R \cup {<<p[1][1], p[2][2]>> :
                       p \in {q \in R \X R : q[1][2] = q[2][1]}}, k - 1)

HasCycle(regs) ==
  \E n \in RegisteredNames(regs) :
    <<n, n>> \in Reach(NameEdges(regs), Len(regs))

Sorted == sortOut.sorted

\* C5: for registrations with unique names and no dependency cycle,
\* sortTopologically returns each input registration exactly once, and every
\* registered dependency of a registration stands before it in the result.
C5_DependenciesFirst ==
  (ops = 1 /\ UniqueNames(sortIn) /\ ~HasCycle(sortIn)) =>
    /\ ~sortOut.err
    /\ Len(Sorted) = Len(sortIn)
    /\ \A i \in 1..Len(sortIn) :
         Cardinality({q \in 1..Len(Sorted) : Sorted[q] = sortIn[i]}) = 1
    /\ \A q \in 1..Len(Sorted) :
         \A D \in Range(Sorted[q].dependencies) \cap RegisteredNames(sortIn) :
           \E p \in 1..(q - 1) : Sorted[p].name = D

\* a chain given in reverse: the first depends on the second, the second on
\* the third, and the result is the input reversed
C5_Witness ==
  /\ ops = 1 /\ UniqueNames(sortIn) /\ ~HasCycle(sortIn)
  /\ Len(sortIn) = 3
  /\ sortIn[2].name \in Range(sortIn[1].dependencies)
  /\ sortIn[3].name \in Range(sortIn[2].dependencies)
  /\ Sorted = <<sortIn[3], sortIn[2], sortIn[1]>>

\* C6 as stated: whenever the dependency relation over the registered names
\* has a cycle, sortTopologically throws 'Graph has cyclic dependencies'.
C6_AnyCycleRejected ==
  (ops = 1 /\ HasCycle(sortIn)) => sortOut.err

\* C6: for registrations with unique names whose dependency relation over the
\* registered names has a cycle of any length, sortTopologically throws
\* 'Graph has cyclic dependencies' and returns no order.
C6_CycleRejected ==
  (ops = 1 /\ UniqueNames(sortIn) /\ HasCycle(sortIn)) =>
    sortOut.err /\ Len(Sorted) < Len(sortIn)

\* a cycle through three registrations, none depending on itself
C6_Witness ==
  /\ ops = 1 /\ UniqueNames(sortIn) /\ Len(sortIn) = 3
  /\ \A i \in 1..3 : sortIn[i].name \notin Range(sortIn[i].dependencies)
  /\ \A i \in 1..3 : Len(sortIn[i].dependencies) = 1
  /\ HasCycle(sortIn)
  /\ sortOut.err

(***************************************************************************)
(* Properties of the container's caches, checked under Spec.               *)
(***************************************************************************)
\* the names registered with registration type t
NamesOfType(t) ==
  {registrations[i].name :
     i \in {j \in 1..Len(registrations) : registrations[j].registrationType = t}}

\* the instances the factory of n produced during lifetime lf
InstancesOf(n, lf) ==
  {i \in 1..Len(created) : created[i].name = n /\ created[i].life = lf}

\* the instances the factory of n produced in the async context of scope s
InstancesIn(n, s) ==
  {i \in 1..Len(created) : created[i].name = n /\ created[i].sc = s}

FramesOf(k) == {f \in 1..Len(frames) : frames[f].k = k}

\* getService calls that returned an instance
Lookups == {f \in FramesOf("getService") : frames[f].st = "ok"}

\* C1: while no scope is involved (calls issued one after another), the
\* factory of every singleton registration has been invoked at most once
\* within the current container lifetime, and what a getService call for it
\* returned is that one instance.
C1_SingletonOnce ==
  stores = <<>> =>
    \A n \in NamesOfType("singleton") :
      /\ Cardinality(InstancesOf(n, lives)) <= 1
      /\ \A f \in Lookups :
           frames[f].nm = n => InstancesOf(n, lives) = {frames[f].val}

\* the scope of store s was opened on the registry as it is now (and not
\* on the empty registry of a container that was built afterwards)
OpenedOnRegistry(s) ==
  \A f \in FramesOf("scopeBody") :
    frames[f].sc = s => frames[f].arg = OfType(registrations, "scoped")

\* C2: in a container that has not been destroyed, the factory of every
\* scoped registration is invoked at most once in a scope, and in a scope
\* opened on the built registry exactly once by the time the scope's
\* callback runs, and every getService call for that name made in the
\* scope returns that one instance.
C2_ScopedOnce ==
  lives = 0 =>
    \A s \in 1..Len(stores) : \A n \in NamesOfType("scoped") :
      /\ Cardinality(InstancesIn(n, s)) <= 1
      /\ OpenedOnRegistry(s) =>
           /\ (\E f \in FramesOf("callback") : frames[f].sc = s) =>
                Cardinality(InstancesIn(n, s)) = 1
           /\ \A f \in Lookups :
                (frames[f].nm = n /\ frames[f].sc = s) =>
                  InstancesIn(n, s) = {frames[f].val}

\* in one scope, a lookup made by the callback and a lookup made for a
\* dependency of another scoped registration returned the same instance
C2_Witness ==
  /\ lives = 0
  /\ \E f, g \in Lookups :
       /\ frames[f].nm \in NamesOfType("scoped")
       /\ frames[g].nm = frames[f].nm
       /\ frames[g].sc = frames[f].sc
       /\ frames[frames[f].par].k = "callback"
       /\ frames[frames[g].par].k = "resolve"
       /\ frames[g].val = frames[f].val
       /\ InstancesIn(frames[f].nm, frames[f].sc) = {frames[f].val}

\* what is stored in a scope was created in that scope, and no getService
\* call running in another scope returned it
StoresApart ==
  \A s \in 1..Len(stores) : \A n \in Names :
    stores[s][n] # 0 =>
      /\ created[stores[s][n]].sc = s
      /\ \A f \in Lookups : frames[f].sc # s => frames[f].val # stores[s][n]

\* a step that changes the store of scope s is a step of code running in
\* scope s: every invocation that moved or started in it has that scope
WritesOwnStore ==
  \A s \in 1..Len(stores) :
    stores'[s] # stores[s] =>
      /\ Len(frames') >= Len(frames)
      /\ \A f \in 1..Len(frames') :
           (f > Len(frames) \/ frames'[f] # frames[f]) => frames'[f].sc = s

\* C3: each scope opened by startScope has its own store: an instance stored
\* in one scope is never returned by a lookup running in another scope, and
\* a write or delete made in one scope leaves every other store unchanged.
C3_ScopesIsolated == [](StoresApart) /\ [][WritesOwnStore]_vars

\* two scopes hold different instances of the same scoped registration, and
\* a lookup in the second scope returned the second scope's instance
C3_Witness ==
  /\ Len(stores) = 2
  /\ \E n \in NamesOfType("scoped") :
       /\ stores[1][n] # 0 /\ stores[2][n] # 0
       /\ stores[1][n] # stores[2][n]
       /\ \E f \in Lookups :
            frames[f].nm = n /\ frames[f].sc = 2 /\ frames[f].val = stores[2][n]

\* resolve calls made by the application whose target was invoked
TargetCalls ==
  {f \in FramesOf("resolve") : frames[f].nm \in TargetNames /\ frames[f].inv}

\* the teardown hooks of the transient registrations among params
HooksOf(params) ==
  Len(SelectSeq(TransientServices(registrations, params),
                LAMBDA r : r.teardown))

\* C4: in a container that has not been destroyed, a resolve(target) call
\* gets one new instance for each transient dependency, invokes no teardown
\* hook before the target has completed, and by the time it settles has
\* invoked the teardown hook of each transient dependency exactly once.
C4_TeardownOnceAfterUse ==
  lives = 0 =>
    \A f \in TargetCalls :
      /\ frames[f].tds > 0 => frames[f].fin
      /\ \A j \in 1..Len(frames[f].ps) :
           frames[f].ps[j] \in NamesOfType("transient") =>
             created[frames[frames[f].kids[j]].val].name = frames[f].ps[j]
      /\ Settled(frames[f]) => frames[f].tds = HooksOf(frames[f].ps)

(***************************************************************************)
(* Properties of build, checked under SpecBuild.  Every call there is a    *)
(* build call, started from the top level, so frames[1] is the call made   *)
(* last; the checks of lines 118-132 run in the step that makes the call.  *)
(***************************************************************************)
\* this step is a call of build
BuildCalled == ops' = ops + 1 /\ frames'[1].k = "build"

\* what line 118 hands to sortTopologically in this step
Union == registrations \o frames'[1].arg

\* two different registration objects of regs have the same name
TwoShareName(regs) ==
  \E i, j \in 1..Len(regs) : regs[i].name = regs[j].name /\ regs[i] # regs[j]

\* C7 as stated: build fails with 'Duplicate service names' whenever two
\* registrations among the registered and the submitted ones share a name.
C7_DuplicateAlwaysReported ==
  [][(BuildCalled /\ TwoShareName(Union)) =>
       frames'[1].err = DuplicateServiceNameError]_vars

\* C7: when two different registration objects among the registered and the
\* submitted ones share a name, wherever they stand and whatever they depend
\* on, build fails: with 'Graph has cyclic dependencies' if the ordering
\* step finds a cycle, and with 'Duplicate service names' otherwise.
C7_DuplicateReported ==
  [][(BuildCalled /\ TwoShareName(Union)) =>
       frames'[1].err = IF sortTopologically(Union).err
                        THEN CyclicDependencyError
                        ELSE DuplicateServiceNameError]_vars

\* a registered name submitted again as another object that has
\* dependencies, after a registration of another name: duplicate reported
C7_Witness ==
  /\ frames # <<>> /\ frames[1].k = "build"
  /\ frames[1].err = DuplicateServiceNameError
  /\ registrations # <<>>
  /\ Len(frames[1].arg) >= 2
  /\ LET last == frames[1].arg[Len(frames[1].arg)] IN
       /\ last.name \in RegisteredNames(registrations)
       /\ last \notin Range(registrations)
       /\ last.dependencies # <<>>
       /\ last.name # frames[1].arg[1].name

\* C8: a build call on a registry that is not empty, submitting a name that
\* is registered, fails with 'Service already registered'.
C8_AlreadyRegisteredReported ==
  [][(/\ BuildCalled
      /\ registrations # <<>>
      /\ \E i \in 1..Len(frames'[1].arg) :
           frames'[1].arg[i].name \in RegisteredNames(registrations)) =>
       frames'[1].err = AlreadyRegisteredError]_vars

\* the errors of the checks of lines 118-132
CheckErrors ==
  {CyclicDependencyError, DuplicateServiceNameError, AlreadyRegisteredError}

\* C9: a build call that fails with a cycle, a duplicate name or a registered
\* name leaves the registry and both forms of the singleton cache as they
\* were and invokes no factory.
C9_FailedBuildChangesNothing ==
  [][(BuildCalled /\ frames'[1].err \in CheckErrors) =>
       /\ registrations' = registrations
       /\ singletons' = singletons
       /\ singletonProps' = singletonProps
       /\ created' = created]_vars

\* a build call failed on a cycle in a container that has registrations and
\* cached singletons
C9_Witness ==
  /\ frames # <<>> /\ frames[1].k = "build"
  /\ frames[1].err = CyclicDependencyError
  /\ Len(frames[1].arg) >= 2
  /\ Len(registrations) >= 2
  /\ singletons # <<>>

\* C10: when build has succeeded with lazyLoad false, every singleton
\* registration has an instance of its own in the singleton cache; with
\* lazyLoad true, no factory is ever invoked by build.
C10_EagerSingletons ==
  /\ config.lazyLoad => created = <<>> /\ singletons = <<>>
  /\ (frames # <<>> /\ frames[1].k = "build" /\ frames[1].st = "ok"
      /\ ~config.lazyLoad) =>
       \A n \in NamesOfType("singleton") :
         \E i \in 1..Len(singletons) :
           /\ singletons[i][1] = n
           /\ singletons[i][2] \in InstancesOf(n, lives)

\* an eager build succeeded on three singletons, the last a class built from
\* the instances of the other two
C10_Witness ==
  /\ frames # <<>> /\ frames[1].k = "build" /\ frames[1].st = "ok"
  /\ ~config.lazyLoad
  /\ Len(singletons) = 3
  /\ Len(created[singletons[3][2]].args) = 2

(***************************************************************************)
(* Calls of the application.  The invocation a call step starts is the     *)
(* frame appended to the live frames: after what is already running when   *)
(* the callback of a scope makes the call, after what is still in flight   *)
(* when the top level makes it.                                            *)
(***************************************************************************)
CalledAt ==
  IF AtCallback(Machine) THEN Len(frames) + 1 ELSE Len(Live(frames)) + 1

OpCalled(k) == ops' = ops + 1 /\ frames'[CalledAt].k = k

\* the names of params that the registry does not hold
Unregistered(params) ==
  {n \in Range(params) : ~RegistryHas(registrations, n)}

\* C11: resolve(target, names) called on a container with a non-empty
\* names of which at least one is not registered fails with
\* UnregisteredDependencyError; the target is not invoked, no getService is
\* started for any name (so no dependency factory runs), no instance is
\* created, no teardown hook runs and no cache changes.
C11_UnregisteredRejected ==
  [][(/\ OpCalled("resolve")
      /\ instance
      /\ Unregistered(frames'[CalledAt].ps) # {})
     => /\ frames'[CalledAt].st = "err"
        /\ frames'[CalledAt].err = UnregisteredDependencyError
        /\ ~frames'[CalledAt].inv
        /\ frames'[CalledAt].kids = <<>>
        /\ Len(frames') = CalledAt
        /\ created' = created
        /\ tdCalls' = tdCalls
        /\ singletons' = singletons
        /\ singletonProps' = singletonProps
        /\ stores' = stores
        /\ registrations' = registrations]_vars

\* a resolve with one registered and one unregistered name was rejected
C11_Witness ==
  \E f \in FramesOf("resolve") :
    /\ instance
    /\ frames[f].nm = "target"
    /\ \E n \in Range(frames[f].ps) : RegistryHas(registrations, n)
    /\ Unregistered(frames[f].ps) # {}
    /\ frames[f].err = UnregisteredDependencyError
    /\ created # <<>>

(***************************************************************************)
(* destroy                                                                 *)
(***************************************************************************)
\* the singleton registrations with a teardown hook of which the container
\* holds an instance (in the Map of setupSingletons or as a property)
LiveSingletonHooks ==
  {registrations[i].name :
     i \in {j \in 1..Len(registrations) :
              /\ registrations[j].registrationType = "singleton"
              /\ registrations[j].teardown
              /\ \/ singletonProps[registrations[j].name] # 0
                 \/ \E e \in Range(singletons) :
                      e[1] = registrations[j].name}}

\* C12: a destroy() that completes on a container invokes the teardown
\* hook of every singleton registration that has a hook and an instance
\* exactly once, and invokes no teardown hook of any other registration.
C12_DestroyTearsDownSingletons ==
  [][(OpCalled("destroy") /\ instance /\ frames'[CalledAt].st = "ok")
     => \A n \in Names :
          tdCalls'[n] = tdCalls[n] + (IF n \in LiveSingletonHooks THEN 1 ELSE 0)]_vars

\* a destroy() that completes leaves the registry and both forms of the
\* singleton cache empty
DestroyClears ==
  (OpCalled("destroy") /\ instance /\ frames'[CalledAt].st = "ok")
  => /\ registrations' = <<>>
     /\ singletons' = <<>>
     /\ singletonProps' = NoInstances

\* what getService returned for a singleton was created in the current
\* lifetime of the container (no scope involved: every call shown was made
\* after the last destroy)
LookupsAreCurrent ==
  stores = <<>> =>
    \A f \in Lookups :
      frames[f].nm \in NamesOfType("singleton") =>
        created[frames[f].val].life = lives

\* C13: after destroy() the singleton cache and the registry are empty, and
\* a later build followed by getService of a singleton name returns an
\* instance created after the destroy, never one created before it.
C13_DestroyStartsAfresh == [](LookupsAreCurrent) /\ [][DestroyClears]_vars

\* a name of which the container holds a singleton instance
HeldSingleton(n) ==
  singletonProps[n] # 0 \/ \E e \in Range(singletons) : e[1] = n

\* a completed destroy() empties the registry and keeps Container._instance
DestroyKeepsInstance ==
  (OpCalled("destroy") /\ instance /\ frames'[CalledAt].st = "ok")
  => registrations' = <<>> /\ instance'

\* getService on a container whose registry is empty
LookupOnEmptyRegistry(error) ==
  (OpCalled("getService") /\ instance /\ registrations = <<>>)
  => /\ frames'[CalledAt].st = "err"
     /\ frames'[CalledAt].err = error
     /\ created' = created

\* C14 as stated: after a completed destroy(), getService(name) for a name
\* that was a registered singleton fails with NotInitializedError.
C14_AfterDestroyNotInitialized ==
  [][(lives > 0 /\ OpCalled("getService") /\ HeldSingleton(frames'[CalledAt].nm))
     => LookupOnEmptyRegistry(NotInitializedError)]_vars

\* C14: a completed destroy() leaves the container in place with an empty
\* registry, and until a later build registers services again every
\* getService(name) on it fails with ServiceNotRegisteredError, returning
\* no instance and invoking no factory.
C14_AfterDestroyNotRegistered ==
  [][DestroyKeepsInstance /\ LookupOnEmptyRegistry(ServiceNotRegisteredError)]_vars

\* after a destroy, getService of a name whose singleton instance the
\* container still holds was rejected as not registered
C14_Witness ==
  \E f \in FramesOf("getService") :
    /\ lives > 0
    /\ registrations = <<>>
    /\ HeldSingleton(frames[f].nm)
    /\ frames[f].par = 0
    /\ frames[f].err = ServiceNotRegisteredError

(***************************************************************************)
(* Before the first container                                              *)
(***************************************************************************)
\* what the container and the scope stores hold
ContainerState ==
  <<instance, config, registrations, singletons, singletonProps, stores,
    created, tdCalls, lives>>

\* C15: while no container was ever created, Container.instance (read to
\* call getService or resolve), destroy() and endScope() each fail with
\* NotInitializedError; the call starts nothing and leaves the container
\* state, the caches and the scope stores unchanged.
C15_NotInitializedRejected ==
  [][(/\ ops' = ops + 1
      /\ ~instance
      /\ frames'[CalledAt].k \in {"getService", "resolve", "destroy", "endScope"})
     => /\ frames'[CalledAt].st = "err"
        /\ frames'[CalledAt].err \in NotInitializedErrors
        /\ Len(frames') = CalledAt
        /\ ContainerState' = ContainerState]_vars

\* endScope was rejected after an earlier call had been, no container
\* having been created
C15_Witness ==
  /\ ~instance
  /\ ops > 1
  /\ frames # <<>>
  /\ Last(frames).k = "endScope"
  /\ Last(frames).err = NotInitializedError
  /\ registrations = <<>>

(***************************************************************************)
(* startScope                                                              *)
(***************************************************************************)
\* the invocations of next() made by the scope body f
CallbacksOf(f) ==
  {g \in FramesOf("callback") : frames[g].par = f}

\* the callback g has been started and has not yet done anything
Fresh(g) ==
  /\ frames[g].pc = "start"
  /\ frames[g].kids = <<>>
  /\ ~Settled(frames[g])

\* the scope body f has resolved and stored its scoped registrations
\* arg[1..n], one after the other in the order of arg
ResolvedInOrder(f, n) ==
  /\ Len(frames[f].kids) >= n
  /\ \A j \in 1..n :
       LET kid == frames[frames[f].kids[j]] IN
       /\ kid.k = "resolve"
       /\ kid.nm = frames[f].arg[j].name
       /\ kid.st = "ok"
       /\ kid.inv
       /\ created[kid.val].name = kid.nm
       /\ created[kid.val].sc = frames[f].sc
       /\ lives = 0 => InstancesIn(kid.nm, frames[f].sc) = {kid.val}
       /\ \A h \in 1..(j - 1) : frames[frames[f].kids[h]].val < kid.val

\* C16: when the callback of startScope starts, the factory of every
\* scoped registration has been invoked once in the scope, in registry
\* order, and its instance is stored in the scope's store; a scope body in
\* which a resolution (or the storing of its result) failed never invokes
\* the callback and ends with that failure.
C16_CallbackAfterScopedResolved ==
  \A f \in FramesOf("scopeBody") :
    /\ \A g \in CallbacksOf(f) :
         /\ frames[f].i = Len(frames[f].arg) + 1
         /\ frames[f].kids = Append(SubSeq(frames[f].kids, 1, Len(frames[f].arg)), g)
         /\ ResolvedInOrder(f, Len(frames[f].arg))
         /\ (lives = 0 /\ Fresh(g)) =>
              frames[f].arg = OfType(registrations, "scoped")
         /\ Fresh(g) =>
              \A j \in 1..Len(frames[f].arg) :
                stores[frames[f].sc][frames[f].arg[j].name]
                  = frames[frames[f].kids[j]].val
    /\ (\E j \in 1..Len(frames[f].kids) :
          frames[frames[f].kids[j]].k = "resolve"
          /\ frames[frames[f].kids[j]].st = "err")
       => /\ CallbacksOf(f) = {}
          /\ Settled(frames[f]) => frames[f].st = "err"
    /\ (frames[f].st = "err" /\ frames[f].err = ScopedKeyConflictError)
       => CallbacksOf(f) = {}

\* a callback has just started in a scope with two scoped registrations
C16_Witness ==
  \E f \in FramesOf("scopeBody") : \E g \in CallbacksOf(f) :
    /\ Fresh(g)
    /\ Len(frames[f].arg) = 2
    /\ stores[frames[f].sc][frames[f].arg[2].name] # 0

\* a scope body ended without its callback because a resolution failed
C16_WitnessFailed ==
  \E f \in FramesOf("scopeBody") :
    /\ frames[f].st = "err"
    /\ frames[f].arg # <<>>
    /\ frames[Last(frames[f].kids)].k = "resolve"
    /\ frames[Last(frames[f].kids)].st = "err"

\* the scope body started by the startScope call f
BodyOf(f) == frames[f].kids[1]

\* C17: when the promise returned by startScope(callback) has settled,
\* the scope body has finished: every scoped registration has been
\* resolved and the callback, with everything it awaited, has completed.
C17_StartScopeAwaitsBody ==
  \A f \in FramesOf("startScope") :
    Settled(frames[f]) =>
      /\ frames[f].kids # <<>>
      /\ Settled(frames[BodyOf(f)])
      /\ \A g \in CallbacksOf(BodyOf(f)) : Settled(frames[g])

(***************************************************************************)
(* The end of a scope                                                      *)
(***************************************************************************)
\* the scope body f is the only scope so far, in a container that was not
\* destroyed; its callback has completed, and so has the body, without the
\* callback having called endScope
EndedWithoutEndScope(f) ==
  /\ lives = 0
  /\ Len(stores) = 1
  /\ frames[f].st = "ok"
  /\ \A g \in CallbacksOf(f) :
       /\ frames[g].st = "ok"
       /\ \A j \in 1..Len(frames[g].kids) :
            frames[frames[g].kids[j]].k # "endScope"

\* the scoped registrations of the scope body f that declare a teardown hook
ScopedHooks(f) ==
  {frames[f].arg[j].name :
     j \in {h \in 1..Len(frames[f].arg) : frames[f].arg[h].teardown}}

\* C18 as stated: once the callback of startScope has completed without
\* endScope() having been called, the teardown hook of every scoped
\* registration that declares one has been invoked and the store of the
\* scope has been cleared.
C18_ClosedImplicitly ==
  \A f \in FramesOf("scopeBody") :
    EndedWithoutEndScope(f) =>
      /\ \A n \in ScopedHooks(f) : tdCalls[n] = 1
      /\ stores[frames[f].sc] = NoInstances

\* C18: a scope is never closed implicitly.  Once the callback of
\* startScope has completed without endScope() having been called, no
\* teardown hook of a scoped registration has been invoked and the store
\* of the scope still holds the instance of every scoped registration.
C18_NotClosedImplicitly ==
  \A f \in FramesOf("scopeBody") :
    EndedWithoutEndScope(f) =>
      /\ \A j \in 1..Len(frames[f].arg) :
           /\ tdCalls[frames[f].arg[j].name] = 0
           /\ stores[frames[f].sc][frames[f].arg[j].name]
                = frames[frames[f].kids[j]].val
           /\ stores[frames[f].sc][frames[f].arg[j].name] # 0

\* a scope with two scoped registrations that declare teardown hooks has
\* ended, its callback having looked up a service and not called endScope
C18_Witness ==
  \E f \in FramesOf("scopeBody") :
    /\ EndedWithoutEndScope(f)
    /\ Cardinality(ScopedHooks(f)) = 2
    /\ \E g \in CallbacksOf(f) : frames[g].kids # <<>>

(***************************************************************************)
(* endScope, checked under SpecScope                                       *)
(***************************************************************************)
\* the endScope calls the callback g made and awaited, in order
EndScopesOf(g) ==
  SelectSeq(frames[g].kids, LAMBDA e : frames[e].k = "endScope")

\* every endScope call running in scope s was made and awaited by the
\* callback g: no two of them overlap
OnlyAwaitedEndScopes(g, s) ==
  \A e \in FramesOf("endScope") :
    frames[e].sc = s => \E j \in 1..Len(frames[g].kids) : frames[g].kids[j] = e

\* teardown hooks among the first n registrations of regs
HooksAmong(regs, n) ==
  Cardinality({j \in 1..n : regs[j].teardown})

\* the first endScope of a scope: at registration arg[i], the hooks of the
\* registrations before it have been invoked once each and their keys are
\* gone, the others are still stored; while the hook of arg[i] runs its
\* key is still there; at the end no key of a scoped registration is left
FirstEndScope(e, s) ==
  LET fr == frames[e] IN
  /\ fr.arg = OfType(registrations, "scoped")
  /\ fr.st # "err"
  /\ \A j \in 1..Len(fr.arg) :
       (stores[s][fr.arg[j].name] = 0) <=> (j < fr.i)
  /\ fr.st = "wait" =>
       /\ fr.i <= Len(fr.arg)
       /\ fr.tds = HooksAmong(fr.arg, fr.i)
  /\ fr.st = "ok" =>
       /\ fr.i = Len(fr.arg) + 1
       /\ fr.tds = HooksAmong(fr.arg, Len(fr.arg))
  /\ Len(stores) = 1 =>
       \A j \in 1..Len(fr.arg) :
         tdCalls[fr.arg[j].name] =
           IF fr.arg[j].teardown /\ (j < fr.i \/ (j = fr.i /\ fr.st = "wait"))
           THEN 1 ELSE 0

\* an endScope after the first one: no hook is invoked again; it fails at
\* the first scoped registration, whose key is gone
LaterEndScope(e, s) ==
  LET fr == frames[e] IN
  /\ fr.tds = 0
  /\ fr.arg # <<>> => (fr.st = "err" /\ fr.err = ScopedKeyMissingError)
  /\ \A n \in Names : stores[s][n] = 0 \/ n \notin NamesOfType("scoped")

\* no teardown hook of a registered service rejects
HooksComplete == \A r \in Range(registrations) : ~HookFails(r)

\* C19: endScope() called by the callback of an open scope, in which
\* every scoped registration has its instance and no teardown hook
\* rejects, invokes the teardown hook of each scoped registration that
\* declares one exactly once, each before the key of that registration is
\* removed, and leaves the store without a key of a scoped registration; a
\* second endScope() of the callback invokes no teardown hook again.
C19_EndScopeTearsDownOnce ==
  \A g \in FramesOf("callback") :
    (/\ HooksComplete
     /\ OpenedOnRegistry(frames[g].sc)
     /\ OnlyAwaitedEndScopes(g, frames[g].sc)) =>
      \A j \in 1..Len(EndScopesOf(g)) :
        IF j = 1 THEN FirstEndScope(EndScopesOf(g)[j], frames[g].sc)
        ELSE LaterEndScope(EndScopesOf(g)[j], frames[g].sc)

\* in a scope with two scoped registrations that declare hooks, a first
\* endScope invoked both and a second one was made after it
C19_Witness ==
  \E g \in FramesOf("callback") :
    /\ Len(EndScopesOf(g)) = 2
    /\ frames[EndScopesOf(g)[1]].st = "ok"
    /\ frames[EndScopesOf(g)[1]].tds >= 2
    /\ Settled(frames[EndScopesOf(g)[2]])
    /\ frames[EndScopesOf(g)[2]].tds = 0

(***************************************************************************)
(* Scope operations and the async context, checked under SpecScope         *)
(***************************************************************************)
\* setScoped, getScoped and deleteKey called where getStore() is undefined
OutsideOpsRejected ==
  \A n \in Names :
    /\ getScoped(stores, 0, n) = [err |-> ScopeMissingError, val |-> 0]
    /\ deleteKey(stores, 0, n) = [err |-> ScopeMissingError, stores |-> stores]
    /\ \A v \in 1..(Len(created) + 1) :
         setScoped(stores, 0, n, v) = [err |-> ScopeMissingError, stores |-> stores]

\* the call fr uses the scope store: getService of a scoped registration,
\* or endScope on a container with scoped registrations
UsesScope(fr) ==
  \/ fr.k = "getService" /\ fr.nm \in NamesOfType("scoped")
  \/ fr.k = "endScope" /\ NamesOfType("scoped") # {}

\* a call made by code outside every scope (before startScope, or after
\* the promise of startScope, whether or not the callback has finished)
TopLevelRejected ==
  (/\ ops' = ops + 1
   /\ ~AtCallback(Machine)
   /\ instance
   /\ UsesScope(frames'[CalledAt]))
  => /\ frames'[CalledAt].sc = 0
     /\ frames'[CalledAt].st = "err"
     /\ frames'[CalledAt].err = ScopeMissingError
     /\ Len(frames') = CalledAt
     /\ ContainerState' = ContainerState

\* this step starts the call f that the callback of a scope left behind,
\* the callback having finished
StartsLeftBehind(f) ==
  /\ frames[f].st = "wait"
  /\ frames[f].pc = "start"
  /\ Len(frames') >= f
  /\ frames'[f] # frames[f]
  /\ Settled(frames[frames[f].par])
  /\ UsesScope(frames[f])

\* C20 as stated: every scope operation attempted while no scope is open
\* fails with ScopeMissingError and changes nothing: outside every scope,
\* and also in calls made after the callback of the scope has finished.
C20_AfterCallbackRejected ==
  /\ [](OutsideOpsRejected)
  /\ [][/\ TopLevelRejected
        /\ \A f \in 1..Len(frames) :
             StartsLeftBehind(f) =>
               /\ frames'[f].err = ScopeMissingError
               /\ ContainerState' = ContainerState]_vars

\* a getService of a scoped registration started by work the callback left
\* behind reads the store of its scope, also after the callback finished
LeftBehindSeesStore(f) ==
  (StartsLeftBehind(f) /\ frames[f].k = "getService")
  => LET g == getScoped(stores, frames[f].sc, frames[f].nm) IN
     /\ frames[f].sc # 0
     /\ frames'[f].err = g.err
     /\ frames'[f].val = g.val
     /\ g.err # ScopeMissingError

\* C20: a scope operation fails with ScopeMissingError and changes nothing
\* exactly when it is made by code that does not run in the async context
\* of a scope: setScoped, getScoped and deleteKey outside any run callback,
\* getService of a scoped registration and endScope from the top level,
\* before a scope was started or after it ended.  Work that the callback
\* started keeps the store of the scope after the callback has finished.
C20_OutsideContextRejected ==
  /\ [](OutsideOpsRejected)
  /\ [][/\ TopLevelRejected
        /\ \A f \in 1..Len(frames) : LeftBehindSeesStore(f)]_vars

\* after a scope ended with its instances still stored, getService of a
\* scoped registration from the top level was rejected
C20_Witness ==
  /\ Len(frames) = 1
  /\ frames[1].k = "getService"
  /\ frames[1].sc = 0
  /\ frames[1].err = ScopeMissingError
  /\ stores # <<>>
  /\ stores[1][frames[1].nm] # 0

\* work left behind by a callback that has finished got the instance of
\* the scope
C20_WitnessLeftBehind ==
  \E f \in FramesOf("getService") :
    /\ frames[f].par # 0
    /\ frames[frames[f].par].k = "callback"
    /\ Settled(frames[frames[f].par])
    /\ \A j \in 1..Len(frames[frames[f].par].kids) :
         frames[frames[f].par].kids[j] # f
    /\ frames[f].st = "ok"
    /\ frames[f].val = stores[frames[f].sc][frames[f].nm]
    /\ frames[f].nm \in NamesOfType("scoped")

(***************************************************************************)
(* getService of a scoped registration whose key is not in the store       *)
(***************************************************************************)
\* C21: getService(name) for a scoped registration, called inside an open
\* scope whose store has no entry for name, does not fail for the missing
\* entry: it invokes the factory, stores the instance and returns it.
C21_LazyScopedCreated ==
  \A f \in FramesOf("getService") :
    (/\ frames[f].sc # 0
     /\ frames[f].nm \in NamesOfType("scoped")
     /\ Settled(frames[f]))
    => /\ frames[f].err # ScopedKeyMissingError
       /\ frames[f].st = "ok"

(***************************************************************************)
(* Properties of RequestScope, checked under SpecStore.                    *)
(***************************************************************************)
\* the call of RequestScope made by this step
StoreCalled(op) == ops' = ops + 1 /\ frames'[1].k = op

\* setScoped(key, value) in a scope, by what the key held
SetScopedEffect ==
  (StoreCalled("setScoped") /\ frames'[1].sc # 0)
  => LET sc    == frames'[1].sc
         key   == frames'[1].nm
         value == frames'[1].arg[1]
     IN CASE stores[sc][key] = 0 ->
               /\ frames'[1].st = "ok"
               /\ stores' = [stores EXCEPT ![sc][key] = value]
          [] stores[sc][key] = value ->
               /\ frames'[1].st = "ok"
               /\ stores' = stores
          [] OTHER ->
               /\ frames'[1].err = ScopedKeyConflictError
               /\ stores' = stores

\* a value held by a key changes only by the key being deleted
ValuesKept ==
  \A s \in 1..Len(stores) : \A n \in Names :
    (stores[s][n] # 0 /\ stores'[s][n] # stores[s][n])
    => stores'[s][n] = 0 /\ frames'[1].k = "deleteKey"

\* C22: inside a scope, setScoped(key, v2) on a key holding another value
\* v1 fails with ScopedKeyConflictError and leaves v1; setScoped with the
\* value already stored succeeds and changes nothing; so the value of a
\* key never changes between its first write and its deletion.
C22_NoOverwrite == [][SetScopedEffect /\ ValuesKept]_vars

\* a second value for a key was rejected, the first one still stored
C22_Witness ==
  /\ frames # <<>>
  /\ frames[1].k = "setScoped"
  /\ frames[1].err = ScopedKeyConflictError
  /\ stores[frames[1].sc][frames[1].nm] # 0
  /\ stores[frames[1].sc][frames[1].nm] # frames[1].arg[1]

\* getScoped(key) in a scope: the value the key holds, or the failure for
\* an absent key; the stores are not changed
GetScopedEffect ==
  (StoreCalled("getScoped") /\ frames'[1].sc # 0)
  => LET sc  == frames'[1].sc
         key == frames'[1].nm
     IN /\ stores' = stores
        /\ IF stores[sc][key] = 0
           THEN frames'[1].err = ScopedKeyMissingError /\ frames'[1].val = 0
           ELSE frames'[1].st = "ok" /\ frames'[1].val = stores[sc][key]

\* deleteKey(key) in a scope: removes that key and nothing else, or fails
\* for an absent key and changes nothing
DeleteKeyEffect ==
  (StoreCalled("deleteKey") /\ frames'[1].sc # 0)
  => LET sc  == frames'[1].sc
         key == frames'[1].nm
     IN IF stores[sc][key] = 0
        THEN frames'[1].err = ScopedKeyMissingError /\ stores' = stores
        ELSE frames'[1].st = "ok" /\ stores' = [stores EXCEPT ![sc][key] = 0]

\* what a key holds is the value of the last successful setScoped for it
\* that no deleteKey followed: a setScoped that just succeeded is read back
ReadsLastWritten ==
  (/\ frames # <<>>
   /\ frames[1].k = "setScoped"
   /\ frames[1].st = "ok")
  => getScoped(stores, frames[1].sc, frames[1].nm)
       = [err |-> "", val |-> frames[1].arg[1]]

\* C23: inside a scope, getScoped(key) and deleteKey(key) on a key absent
\* from the store (never written, or deleted) fail with
\* ScopedKeyMissingError and leave the store unchanged; on a present key
\* getScoped returns the value last written and deleteKey removes exactly
\* that key.
C23_MissingKeyRejected ==
  [](ReadsLastWritten) /\ [][GetScopedEffect /\ DeleteKeyEffect]_vars

\* deleteKey of an already deleted key was rejected in a store that holds
\* another key
C23_Witness ==
  /\ frames # <<>>
  /\ frames[1].k = "deleteKey"
  /\ frames[1].err = ScopedKeyMissingError
  /\ ops >= 4
  /\ \E n \in Names : stores[frames[1].sc][n] # 0

(***************************************************************************)
(* resolve with a target that fails, checked under Spec                    *)
(***************************************************************************)
\* resolve calls of the application whose target was invoked and failed
FailedTargetCalls == {f \in TargetCalls : frames[f].nm = "throws"}

\* C24: in a container that has not been destroyed, when the target of
\* resolve(target, deps) fails, the teardown hook of every transient
\* dependency of the call that declares one has been invoked exactly once
\* by the time the call settles, and the call settles with the failure of
\* the target.
C24_TeardownAfterFailure ==
  lives = 0 =>
    \A f \in FailedTargetCalls :
      Settled(frames[f]) =>
        /\ frames[f].tds = HooksOf(frames[f].ps)
        /\ frames[f].err = TargetError

(***************************************************************************)
(* Transient registrations, checked under Spec                             *)
(***************************************************************************)
\* getService calls for transient registrations that returned an instance
TransientLookups ==
  {f \in Lookups : frames[f].nm \in NamesOfType("transient")}

\* every getService(name) for a transient registration, made by the
\* application or for a dependency of a resolve call, invokes the factory
\* in that call and returns the instance it made, which no other call
\* returns
TransientAlwaysNew ==
  \A f \in TransientLookups :
    /\ frames[f].kids # <<>>
    /\ frames[Last(frames[f].kids)].k = "resolve"
    /\ frames[Last(frames[f].kids)].inv
    /\ frames[f].val = frames[Last(frames[f].kids)].val
    /\ created[frames[f].val].name = frames[f].nm
    /\ \A g \in Lookups : frames[g].val = frames[f].val => g = f

\* neither form of the singleton cache nor any scope store holds an entry
\* under the name of a transient registration
NoTransientEntry ==
  \A n \in NamesOfType("transient") :
    /\ singletonProps[n] = 0
    /\ \A e \in Range(singletons) : e[1] # n
    /\ \A s \in 1..Len(stores) : stores[s][n] = 0

\* C25: a transient instance is never cached: every getService(name) for
\* a transient registration, and every resolve call that declares it as a
\* dependency, invokes its factory again and obtains a new instance; and
\* after any sequence of operations, destroy and a later build included,
\* neither the singleton cache nor any scope store holds an entry under
\* the name of a transient registration.
C25_TransientNeverCached == TransientAlwaysNew /\ NoTransientEntry

\* the same for a container that has not been destroyed
TransientNeverCachedBeforeDestroy ==
  lives = 0 => (TransientAlwaysNew /\ NoTransientEntry)

\* a resolve call got a new instance of a transient dependency of which an
\* earlier call had already got an instance
C25_Witness ==
  /\ lives = 0
  /\ \E f \in TransientLookups :
       /\ frames[f].par # 0
       /\ frames[frames[f].par].k = "resolve"
       /\ \E i \in InstancesOf(frames[f].nm, 0) : i < frames[f].val

(***************************************************************************)
(* The dependencies of one resolve call, checked under Spec                *)
(***************************************************************************)
\* the getService calls resolve(func, params) made for its params
ServicesOf(f) == [j \in 1..Len(frames[f].kids) |-> frames[frames[f].kids[j]]]

\* C26 as stated: within one resolve call the lookup of a dependency has
\* not started before the lookup of the dependency declared before it has
\* completed.
C26_ResolvedSequentially ==
  \A f \in FramesOf("resolve") :
    \A j \in 2..Len(frames[f].kids) : Settled(ServicesOf(f)[j - 1])

\* C26: within one resolve call the getService calls for the dependencies
\* are started in declared order, all of them before the call first
\* suspends and none waiting for an earlier one to complete; the target is
\* invoked only when every one of them has returned an instance, and it
\* receives the instances in declared order.
C26_StartedInOrderResolvedTogether ==
  \A f \in FramesOf("resolve") :
    LET fr == frames[f] IN
    /\ \A j \in 1..Len(fr.kids) :
         /\ ServicesOf(f)[j].k = "getService"
         /\ ServicesOf(f)[j].nm = fr.ps[j]
    /\ fr.kids # <<>> => Len(fr.kids) = Len(fr.ps)
    /\ fr.inv => \A j \in 1..Len(fr.kids) : ServicesOf(f)[j].st = "ok"
    /\ fr.inv /\ fr.st = "ok" /\ fr.nm \notin TargetNames =>
         created[fr.val].args =
           [j \in 1..Len(fr.kids) |-> ServicesOf(f)[j].val]

\* the factory of the second dependency of a resolve call has been invoked
\* while the lookup of the first one has not completed
C26_Witness ==
  \E f \in FramesOf("resolve") :
    /\ Len(frames[f].kids) = 2
    /\ ~Settled(ServicesOf(f)[1])
    /\ ServicesOf(f)[2].kids # <<>>
    /\ frames[Last(ServicesOf(f)[2].kids)].inv

(***************************************************************************)
(* Concurrent first lookups of a singleton, checked under Spec             *)
(***************************************************************************)
\* pairs of getService calls for one singleton registration that both
\* found no cached instance and have both returned
FirstLookupPairs ==
  {p \in Lookups \X Lookups :
     /\ p[1] # p[2]
     /\ frames[p[1]].nm = frames[p[2]].nm
     /\ frames[p[1]].nm \in NamesOfType("singleton")
     /\ frames[p[1]].kids # <<>>
     /\ frames[p[2]].kids # <<>>}

\* C27: nothing serialises the first lookups of a singleton: when two
\* getService calls for it have both passed the cache check before either
\* stored its result, the factory has been invoked once for each of them
\* and the two calls return different instances.
C27_ConcurrentFirstLookupsBuildTwice ==
  \A p \in FirstLookupPairs :
    /\ frames[Last(frames[p[1]].kids)].inv
    /\ frames[Last(frames[p[2]].kids)].inv
    /\ frames[p[1]].val # frames[p[2]].val
    /\ created[frames[p[1]].val].name = frames[p[1]].nm
    /\ created[frames[p[2]].val].name = frames[p[2]].nm

\* with lazy loading, two dependencies of one resolve call needed the same
\* singleton, whose factory was invoked twice in this container lifetime,
\* and they got different instances
C27_Witness ==
  /\ config.lazyLoad
  /\ lives = 0
  /\ \E p \in FirstLookupPairs :
       /\ frames[p[1]].val # frames[p[2]].val
       /\ Cardinality(InstancesOf(frames[p[1]].nm, 0)) = 2
       /\ \E f \in FramesOf("resolve") :
            /\ p[1] \in Range(frames[f].kids)
            /\ \E g \in Range(frames[f].kids) :
                 /\ frames[g].kids # <<>>
                 /\ p[2] \in Range(frames[Last(frames[g].kids)].kids)

(***************************************************************************)
(* The finally block of resolve, checked under Spec                        *)
(***************************************************************************)
\* this step ran the finally block of the resolve call f, or went on with
\* its teardown loop after a hook
TeardownRan(f) ==
  /\ frames[f].k = "resolve"
  /\ frames[f].st = "wait"
  /\ frames[f].pc \in {"invoke", "invoked", "teardown"}
  /\ f <= Len(frames')
  /\ frames'[f] # frames[f]
  /\ frames'[f].fin

\* the registrations whose teardown hook this step invoked
HooksInvoked == {n \in Names : tdCalls'[n] # tdCalls[n]}

\* C28: the teardown step that ends a resolve call touches only the
\* transient dependencies of that call: every teardown hook it invokes is
\* the hook of a transient registration among the declared dependencies,
\* and it leaves the singleton cache, the scope stores and the registry
\* exactly as they were.
C28_TeardownTouchesTransientsOnly ==
  [][\A f \in 1..Len(frames) :
       TeardownRan(f) =>
         /\ \A n \in HooksInvoked :
              /\ n \in Range(frames[f].ps)
              /\ \E r \in Range(frames'[f].arg) :
                   r.name = n /\ r.registrationType = "transient"
         /\ singletons' = singletons
         /\ singletonProps' = singletonProps
         /\ stores' = stores
         /\ registrations' = registrations]_vars

\* a resolve call with a cached singleton dependency and a transient
\* dependency, both registered with a teardown hook, has ended: the hook of
\* the transient one was invoked, the hook of the singleton was not
C28_Witness ==
  \E f \in FramesOf("resolve") :
    /\ Settled(frames[f])
    /\ frames[f].fin
    /\ frames[f].tds = 1
    /\ \E n \in Range(frames[f].ps) \cap NamesOfType("singleton") :
         /\ RegistryGet(registrations, n)[1].teardown
         /\ singletonProps[n] # 0
         /\ tdCalls[n] = 0

(***************************************************************************)
(* Dependencies that no registration bears, checked under SpecBuild        *)
(***************************************************************************)
\* the registrations of regs that declare a name regs does not hold
Dangling(regs) ==
  {r \in Range(regs) :
     \E k \in 1..Len(r.dependencies) : ~RegistryHas(regs, r.dependencies[k])}

\* the build call of this state has settled
BuildSettled ==
  frames # <<>> /\ frames[1].k = "build" /\ Settled(frames[1])

\* C29 as stated: when a build call has ended, every dependency name
\* declared by a registration of the registry is the name of a registration
\* of the registry.
C29_DependenciesRegistered ==
  BuildSettled => Dangling(registrations) = {}

\* C29: build does not look at whether declared dependency names are
\* registered.  A build call that passes the checks for cycles, duplicate
\* names and registered names commits every registration of its input,
\* those that declare an unregistered name included; with lazy loading it
\* then succeeds, and it only fails for an unregistered name when eager
\* loading resolves a singleton that needs one, after the registrations
\* were committed.
C29_DependenciesUnchecked ==
  BuildSettled =>
    /\ frames[1].err \notin CheckErrors =>
         Range(frames[1].arg) \subseteq Range(registrations)
    /\ (frames[1].err \notin CheckErrors /\ config.lazyLoad) =>
         frames[1].st = "ok"
    /\ frames[1].err = UnregisteredDependencyError =>
         /\ ~config.lazyLoad
         /\ Dangling(registrations) # {}

\* a build call succeeded and committed a registration that declares a name
\* the registry does not hold
C29_Witness ==
  /\ BuildSettled
  /\ frames[1].st = "ok"
  /\ Dangling(registrations) \cap Range(frames[1].arg) # {}

\* an eager build call failed on the unregistered dependency of a singleton
\* and left the singleton registered
C29_WitnessEager ==
  /\ BuildSettled
  /\ frames[1].err = UnregisteredDependencyError
  /\ \E r \in Dangling(registrations) \cap Range(frames[1].arg) :
       r.registrationType = "singleton"

(***************************************************************************)
(* The order sortTopologically keeps, checked under SpecSort               *)
(***************************************************************************)
\* every registration of regs stands after all its registered dependencies
InOrder(regs) ==
  \A i \in 1..Len(regs) :
    \A D \in Range(regs[i].dependencies) \cap RegisteredNames(regs) :
      \E p \in 1..(i - 1) : regs[p].name = D

\* n depends on d, directly or through other registrations
DependsOn(regs) == Reach(NameEdges(regs), Len(regs))

\* neither of the registrations at i and j depends on the other
Independent(regs, i, j) ==
  /\ <<regs[i].name, regs[j].name>> \notin DependsOn(regs)
  /\ <<regs[j].name, regs[i].name>> \notin DependsOn(regs)

\* the registration at j is a dependency, direct or not, of one at or
\* before i
Needed(regs, i, j) ==
  \E p \in 1..i : <<regs[p].name, regs[j].name>> \in DependsOn(regs)

\* where the registration stands in the result
SortedAt(reg) == CHOOSE q \in 1..Len(Sorted) : Sorted[q] = reg

\* an input the order of the result can be read from
Sortable == ops = 1 /\ UniqueNames(sortIn) /\ ~HasCycle(sortIn)

\* C30 as stated: an input that lists every registration after its
\* registered dependencies is returned as it is, and in every result two
\* registrations neither of which depends on the other stand in their
\* input order.
C30_IndependentKeepOrder ==
  Sortable =>
    /\ InOrder(sortIn) => Sorted = sortIn
    /\ \A i, j \in 1..Len(sortIn) :
         (i < j /\ Independent(sortIn, i, j)) =>
           SortedAt(sortIn[i]) < SortedAt(sortIn[j])

\* C30: an input that lists every registration after its registered
\* dependencies is returned as it is; in every result a registration stands
\* after each registration listed before it in the input, unless it is a
\* dependency, direct or not, of that registration or of one listed before
\* that registration.
C30_OrderKeptUnlessNeeded ==
  Sortable =>
    /\ InOrder(sortIn) => Sorted = sortIn
    /\ \A i, j \in 1..Len(sortIn) :
         (i < j /\ ~Needed(sortIn, i, j)) =>
           SortedAt(sortIn[i]) < SortedAt(sortIn[j])

\* the first registration depends on the third and the second on nothing:
\* the third is moved ahead of the second, which it is independent of,
\* and the first still stands before the second
C30_Witness ==
  /\ Sortable
  /\ Len(sortIn) = 3
  /\ ~InOrder(sortIn)
  /\ Independent(sortIn, 2, 3)
  /\ Needed(sortIn, 2, 3)
  /\ ~Needed(sortIn, 1, 2)
  /\ Sorted = <<sortIn[3], sortIn[1], sortIn[2]>>

(***************************************************************************)
(* Dependency names that match no registration, checked under SpecSort     *)
(***************************************************************************)
\* regs with every dependency name outside names taken off the lists
WithoutUnknown(regs, names) ==
  [i \in 1..Len(regs) |->
     [regs[i] EXCEPT !.dependencies = SelectSeq(@, LAMBDA d : d \in names)]]

\* the input without the dependency names that none of its registrations
\* bears
KnownOnly == WithoutUnknown(sortIn, RegisteredNames(sortIn))

\* some registration of the input declares such a name
DeclaresUnknown == KnownOnly # sortIn

\* taking the names off leaves different objects different
StaysDistinct ==
  Cardinality(Range(KnownOnly)) = Cardinality(Range(sortIn))

\* C31: a dependency name that matches no registration of the input is a
\* leaf for sortTopologically: the call throws exactly when it throws for
\* the input without such names, the result holds registrations of the
\* input only, and it is the result for the input without such names.
C31_UnknownDependencyIsLeaf ==
  (ops = 1 /\ StaysDistinct) =>
    LET plain == sortTopologically(KnownOnly) IN
    /\ sortOut.err = plain.err
    /\ Range(Sorted) \subseteq Range(sortIn)
    /\ WithoutUnknown(Sorted, RegisteredNames(sortIn)) = plain.sorted

\* three registrations were put in order, of which one declares a name of
\* the input and a name that no registration bears
C31_Witness ==
  /\ ops = 1 /\ StaysDistinct /\ DeclaresUnknown
  /\ ~sortOut.err
  /\ Len(Sorted) = 3
  /\ Sorted # sortIn
  /\ \E i \in 1..3 :
       /\ Len(sortIn[i].dependencies) = 2
       /\ Len(KnownOnly[i].dependencies) = 1

(***************************************************************************)
(* What func is invoked with, checked under Spec                           *)
(***************************************************************************)
\* the invocation g was made, directly or not, on behalf of f
RECURSIVE IsUnder(_, _)
IsUnder(g, f) ==
  /\ frames[g].par # 0
  /\ (frames[g].par = f \/ IsUnder(frames[g].par, f))

\* the resolve calls made for f, f included
ResolvesFor(f) ==
  {f} \cup {r \in FramesOf("resolve") : IsUnder(r, f)}

\* every service of the params of f was obtained (a call that failed
\* before it reached resolve is left at its start)
ServicesObtained(f) ==
  /\ Len(frames[f].kids) = Len(frames[f].ps)
  /\ \A j \in 1..Len(frames[f].kids) : ServicesOf(f)[j].st = "ok"

\* f and everything resolved for it declare at most one dependency
IsChain(f) == \A r \in ResolvesFor(f) : Len(frames[r].ps) <= 1

\* C32: in a container that has not been destroyed, a resolve call whose
\* services were all obtained invokes func exactly once, as soon as it goes
\* on after the last of them, with one argument for each declared name,
\* argument i being what getService returned for name i, an instance of
\* that registration; the same holds for the resolve calls getService
\* makes for the registrations, so that along a chain of registrations
\* each factory is invoked exactly once in the call and gets the instance
\* made for the next registration of the chain.
C32_InvokedOnceWithServices ==
  lives = 0 =>
    \A f \in FramesOf("resolve") :
      LET fr == frames[f] IN
      /\ Len(fr.calls) <= 1
      /\ fr.inv <=> Len(fr.calls) = 1
      /\ fr.inv =>
           /\ ServicesObtained(f) \/ fr.ps = <<>>
           /\ fr.calls[1] = [j \in 1..Len(fr.kids) |-> ServicesOf(f)[j].val]
           /\ \A j \in 1..Len(fr.kids) :
                created[fr.calls[1][j]].name = fr.ps[j]
      /\ (Settled(fr) /\ fr.pc # "start" /\ ServicesObtained(f)) => fr.inv
      /\ (fr.inv /\ fr.nm \notin TargetNames /\ fr.val # 0) =>
           created[fr.val].args = fr.calls[1]
      /\ (fr.inv /\ IsChain(f)) =>
           \A r, q \in ResolvesFor(f) :
             frames[r].nm = frames[q].nm => r = q

\* a function of the application was invoked with the instance of b, whose
\* factory had been invoked with the instance of a made in the same call,
\* a and b being transient
C32_Witness ==
  /\ lives = 0
  /\ \E f \in TargetCalls :
       /\ frames[f].st = "ok"
       /\ IsChain(f)
       /\ Cardinality(ResolvesFor(f)) = 3
       /\ \A r \in ResolvesFor(f) \ {f} :
            frames[r].nm \in NamesOfType("transient")
       /\ Len(frames[f].calls[1]) = 1
       /\ Len(created[frames[f].calls[1][1]].args) = 1

(***************************************************************************)
(* A teardown hook that rejects, checked under SpecScope                   *)
(***************************************************************************)
\* the places in regs of the registrations whose teardown hook rejects
Rejecting(regs) == {j \in 1..Len(regs) : HookFails(regs[j])}

\* the first of them
FirstRejecting(regs) ==
  CHOOSE j \in Rejecting(regs) : \A q \in Rejecting(regs) : j <= q

\* C33 (endScope): when the teardown hook of a scoped registration
\* rejects during the first endScope() of a scope, endScope rejects with
\* that failure; the hooks of the scoped registrations before the failing
\* one have been invoked and their keys removed from the scope store, the
\* key of the failing registration and the keys of those after it are
\* still stored, and the hooks of those after it have not been invoked.
C33_FailedHookStopsEndScope ==
  \A g \in FramesOf("callback") :
    (OnlyAwaitedEndScopes(g, frames[g].sc) /\ EndScopesOf(g) # <<>>) =>
      LET fr == frames[EndScopesOf(g)[1]] IN
      (Settled(fr) /\ Rejecting(fr.arg) # {}) =>
        /\ fr.st = "err"
        /\ fr.err = HookError
        /\ fr.i = FirstRejecting(fr.arg)
        /\ fr.tds = HooksAmong(fr.arg, fr.i)
        /\ \A j \in 1..Len(fr.arg) :
             (stores[frames[g].sc][fr.arg[j].name] = 0) <=> (j < fr.i)

\* an endScope call failed on the hook of the second of three scoped
\* registrations: the key of the first is gone, the other two are stored
C33_Witness ==
  \E g \in FramesOf("callback") :
    /\ OnlyAwaitedEndScopes(g, frames[g].sc)
    /\ Len(EndScopesOf(g)) = 1
    /\ LET fr == frames[EndScopesOf(g)[1]] IN
         /\ fr.err = HookError
         /\ Len(fr.arg) = 3
         /\ fr.i = 2
         /\ fr.tds = 2
         /\ stores[frames[g].sc][fr.arg[1].name] = 0
         /\ stores[frames[g].sc][fr.arg[2].name] # 0
         /\ stores[frames[g].sc][fr.arg[3].name] # 0

(***************************************************************************)
(* A teardown hook that rejects in destroy, checked under Spec             *)
(***************************************************************************)
\* the places in the singleton Map (the entries destroy iterates, part_012
\* line 179) of the instances of singleton registrations whose teardown
\* hook rejects
RejectingEntries ==
  {j \in 1..Len(singletons) :
     \E r \in Range(registrations) :
       /\ r.name = singletons[j][1]
       /\ r.registrationType = "singleton"
       /\ HookFails(r)}

\* the first of them
FirstRejectingEntry ==
  CHOOSE j \in RejectingEntries : \A q \in RejectingEntries : j <= q

\* C33 (destroy): when the teardown hook of a singleton of which the
\* singleton cache holds an instance rejects during destroy(), destroy
\* rejects with that failure, the entries before the failing one have been
\* removed from the singleton cache, and the failing entry and the entries
\* after it are still present.
C33_FailedHookStopsDestroy ==
  [][(OpCalled("destroy") /\ instance /\ RejectingEntries # {}) =>
       /\ frames'[CalledAt].st = "err"
       /\ frames'[CalledAt].err = HookError
       /\ singletons' =
            SubSeq(singletons, FirstRejectingEntry, Len(singletons))]_vars

\* what destroy() does instead: it fulfils, invokes no teardown hook and
\* leaves every entry of the singleton cache in place
DestroyIgnoresHooks ==
  [][(OpCalled("destroy") /\ instance) =>
       /\ frames'[CalledAt].st = "ok"
       /\ tdCalls' = tdCalls
       /\ singletons' = singletons
       /\ singletonProps' = singletonProps]_vars

(***************************************************************************)
(* What changes the registry and the singleton cache, checked under Spec   *)
(***************************************************************************)
\* every entry of the singleton cache (Map entries and own properties) is
\* still there after this step
SingletonsKept ==
  /\ \A n \in Names : singletonProps[n] # 0 => singletonProps'[n] # 0
  /\ \A e \in Range(singletons) : \E d \in Range(singletons') : d[1] = e[1]

\* C34: a step that is not a call of build or destroy (a call of
\* getService, resolve, startScope or endScope, or the continuation of any
\* call, whether it succeeds or fails) leaves the registry exactly as it
\* was: no registration added, removed or replaced; and a step that is not
\* a call of destroy removes no entry from the singleton cache.
C34_RegistryImmutable ==
  [][/\ ~(OpCalled("build") \/ OpCalled("destroy")) =>
          registrations' = registrations
     /\ ~OpCalled("destroy") => SingletonsKept]_vars

\* after a build that cached a singleton, a call that failed and the call
\* before it have left the three registrations and the cache in place
C34_Witness ==
  /\ ops = 3 /\ lives = 0
  /\ Len(registrations) = 3
  /\ singletons # <<>>
  /\ \E n \in Names : singletonProps[n] # 0
  /\ \E f \in FramesOf("getService") :
       frames[f].par = 0 /\ frames[f].st = "err"

(***************************************************************************)
(* Failures inside a scope body, checked under Spec                        *)
(***************************************************************************)
\* C35: when the body run by startScope has failed (a scoped registration
\* could not be resolved or stored, or the callback failed), the promise
\* returned by startScope is rejected with that failure.
C35_StartScopeRejects ==
  \A f \in FramesOf("startScope") :
    (frames[f].kids # <<>> /\ frames[BodyOf(f)].st = "err") =>
      /\ frames[f].st = "err"
      /\ frames[f].err = frames[BodyOf(f)].err

(***************************************************************************)
(* Targets with a constructor, checked under Spec                          *)
(***************************************************************************)
\* C36: in a container that has not been destroyed, a resolve call on a
\* target with a constructor that does not throw, one of whose services
\* is transient and declares a teardown hook, has constructed the target
\* once when it settles, has invoked each such hook exactly once, and
\* settles without an error.
C36_ClassTargetTornDown ==
  lives = 0 =>
    \A f \in TargetCalls :
      (/\ frames[f].ctor
       /\ frames[f].nm = "target"
       /\ HooksOf(frames[f].ps) > 0
       /\ Settled(frames[f])) =>
        /\ Len(frames[f].calls) = 1
        /\ frames[f].tds = HooksOf(frames[f].ps)
        /\ frames[f].st = "ok"

(***************************************************************************)
(* A later build call, checked under SpecBuild                             *)
(***************************************************************************)
\* this step calls build on a registry that holds registrations, with
\* names that differ from each other and from the registered ones, the
\* registered and the submitted registrations together having no cycle
LaterBuildOfNewNames ==
  /\ BuildCalled
  /\ registrations # <<>>
  /\ frames'[1].arg # <<>>
  /\ UniqueNames(Union)
  /\ ~sortTopologically(Union).err

\* C37: a build call on a registry that already holds registrations, with
\* new names only and no cycle, passes the checks of build and commits its
\* registrations: afterwards the registry holds the registered and the
\* submitted registrations, and nothing else.
C37_LaterBuildAddsNewNames ==
  [][LaterBuildOfNewNames =>
       /\ frames'[1].err \notin CheckErrors
       /\ Range(registrations') = Range(Union)]_vars

(***************************************************************************)
(* Teardown inside a chain of transient registrations, checked under Spec  *)
(***************************************************************************)
\* the resolve calls made for the transient registrations that the
\* function of the resolve call f declares
TransientResolvesOf(f) ==
  {r \in FramesOf("resolve") :
     /\ frames[r].par # 0
     /\ frames[frames[r].par].k = "getService"
     /\ frames[frames[r].par].par = f
     /\ frames[r].nm \in NamesOfType("transient")}

\* C38: in a container that has not been destroyed, when a function of
\* the application declares a transient registration A that itself
\* declares transient registrations with teardown hooks, the resolve call
\* for A starts invoking those hooks in the step in which the factory of A
\* completes and ends without an error; so by the time the function is
\* invoked every such hook has been invoked once, while the instance of A
\* it is handed was built from the instances now torn down.
C38_NestedTeardownBeforeTarget ==
  lives = 0 =>
    \A f \in FramesOf("resolve") :
      frames[f].nm \in TargetNames =>
        \A r \in TransientResolvesOf(f) :
          (frames[r].fin /\ HooksOf(frames[r].ps) > 0) =>
            /\ frames[r].tds >= 1
            /\ Settled(frames[r]) =>
                 /\ frames[r].st = "ok"
                 /\ frames[r].tds = HooksOf(frames[r].ps)
            /\ frames[f].inv =>
                 /\ frames[r].tds = HooksOf(frames[r].ps)
                 /\ frames[r].val \in Range(frames[f].calls[1])
                 /\ created[frames[r].val].args = frames[r].calls[1]

(***************************************************************************)
(* Termination of getService and resolve, checked under SpecLive           *)
(***************************************************************************)
\* the getService calls on whose behalf the getService call g was made
LookupPath(g) == {h \in FramesOf("getService") : IsUnder(g, h)}

\* no getService call was made on behalf of a getService call for the same
\* name
NoRevisit ==
  \A g \in FramesOf("getService") :
    \A h \in LookupPath(g) : frames[h].nm # frames[g].nm

\* every getService and resolve call made so far has completed
AllSettled ==
  \A f \in FramesOf("getService") \cup FramesOf("resolve") :
    Settled(frames[f])

\* C39: the recursion between resolve and getService never comes back to
\* a registration that is on its own dependency path, and when the event
\* loop continues every invocation whose awaited promise has settled,
\* every getService and resolve call completes, with a value or an error.
C39_LookupsTerminate == [](NoRevisit) /\ []<>(AllSettled)

\* a getService call for c has completed after the lookups of a and b made
\* for it and the lookup of a made for b: a path of three registrations
C39_Witness ==
  \E g \in Lookups :
    /\ frames[g].nm = "a"
    /\ Cardinality(LookupPath(g)) = 2
    /\ \A h \in LookupPath(g) : frames[h].st = "ok"

(***************************************************************************)
(* A dependency that fails                                                 *)
(***************************************************************************)
\* the getService calls that the resolve call f made for its parameters
\* and that returned an instance of a transient registration with a hook
TransientsObtained(f) ==
  {g \in FramesOf("getService") :
     /\ frames[g].par = f
     /\ frames[g].st = "ok"
     /\ \E j \in 1..Len(registrations) :
          /\ registrations[j].name = frames[g].nm
          /\ registrations[j].registrationType = "transient"
          /\ registrations[j].teardown}

\* C40: when one getService of a resolve call has failed, the function of
\* that call is never invoked, the call never enters its finally block and
\* so invokes no teardown hook, also not for the transient services that
\* its other getService calls have returned, and the call fails with the
\* failure of the getService that failed first.
C40_FailedDependencyNoTeardown ==
  \A f \in FramesOf("resolve") :
    frames[f].perr # "" =>
      /\ ~frames[f].inv
      /\ frames[f].calls = <<>>
      /\ ~frames[f].fin
      /\ frames[f].tds = 0
      /\ Settled(frames[f]) =>
           /\ frames[f].st = "err"
           /\ frames[f].err = frames[f].perr

\* a resolve call of the application has failed because a scoped service
\* was asked for outside a scope, after another getService of the call
\* had returned a transient service with a teardown hook
C40_Witness ==
  \E f \in FramesOf("resolve") :
    /\ frames[f].nm \in TargetNames
    /\ frames[f].st = "err"
    /\ frames[f].perr # ""
    /\ TransientsObtained(f) # {}
    /\ \A g \in TransientsObtained(f) : tdCalls[frames[g].nm] = 0
====
